---- MODULE Spec2Model ----
(***************************************************************************)
(* agentman: the Agentfile parsers (Dockerfile syntax and YAML), the       *)
(* canonical AgentfileConfig and the converter between the two syntaxes.   *)
(*                                                                         *)
(* Python str values are TLA+ strings (TLC treats a string as the sequence *)
(* of its characters: Len, \o, SubSeq, Head, Tail).  Optional[str] is the  *)
(* empty tuple (None) or a one-element tuple holding the string.  A Python *)
(* dict is the sequence of its items in insertion order.                   *)
(***************************************************************************)
EXTENDS Integers, Sequences, FiniteSets, TLC

(***************************************************************************)
(* Bounds of the model.                                                    *)
(***************************************************************************)
MaxTokLen == 5
MaxLines == 4

(***************************************************************************)
(* str helpers.                                                            *)
(***************************************************************************)
Ch(s, i) == SubSeq(s, i, i)

IsSpace(c) == c \in {" ", "\t"}

IsQuoteChar(c) == c \in {"\"", "'"}

RECURSIVE RStrip(_)
RStrip(s) ==
    IF s = "" THEN ""
    ELSE IF IsSpace(Ch(s, Len(s))) THEN RStrip(SubSeq(s, 1, Len(s) - 1))
    ELSE s

RECURSIVE LStrip(_)
LStrip(s) ==
    IF s = "" THEN ""
    ELSE IF IsSpace(Head(s)) THEN LStrip(Tail(s))
    ELSE s

Strip(s) == LStrip(RStrip(s))

StartsWith(s, p) == Len(s) >= Len(p) /\ SubSeq(s, 1, Len(p)) = p

EndsWith(s, p) == Len(s) >= Len(p) /\ SubSeq(s, Len(s) - Len(p) + 1, Len(s)) = p

LowerAlpha == "abcdefghijklmnopqrstuvwxyz"
UpperAlpha == "ABCDEFGHIJKLMNOPQRSTUVWXYZ"

LowerLetters == {Ch(LowerAlpha, i) : i \in 1..26}

UpperLetters == {Ch(UpperAlpha, i) : i \in 1..26}

UpperOf == [c \in LowerLetters |-> Ch(UpperAlpha, CHOOSE i \in 1..26 : Ch(LowerAlpha, i) = c)]

LowerOf == [c \in UpperLetters |-> Ch(LowerAlpha, CHOOSE i \in 1..26 : Ch(UpperAlpha, i) = c)]

UpperChar(c) == IF c \in LowerLetters THEN UpperOf[c] ELSE c

LowerChar(c) == IF c \in UpperLetters THEN LowerOf[c] ELSE c

RECURSIVE Upper(_)
Upper(s) == IF s = "" THEN "" ELSE UpperChar(Head(s)) \o Upper(Tail(s))

RECURSIVE Lower(_)
Lower(s) == IF s = "" THEN "" ELSE LowerChar(Head(s)) \o Lower(Tail(s))

\* sep.join(parts)
RECURSIVE Join(_, _)
Join(sep, parts) ==
    IF parts = <<>> THEN ""
    ELSE IF Len(parts) = 1 THEN parts[1]
    ELSE parts[1] \o sep \o Join(sep, Tail(parts))

\* s.strip(chars) for a set of characters
RECURSIVE StripChars(_, _)
StripChars(s, chars) ==
    IF s = "" THEN ""
    ELSE IF Head(s) \in chars THEN StripChars(Tail(s), chars)
    ELSE IF Ch(s, Len(s)) \in chars THEN StripChars(SubSeq(s, 1, Len(s) - 1), chars)
    ELSE s

\* The index of the first occurrence of character c in s, 0 when there is none.
RECURSIVE Find(_, _, _)
Find(s, c, i) ==
    IF i > Len(s) THEN 0
    ELSE IF Ch(s, i) = c THEN i
    ELSE Find(s, c, i + 1)

\* s.split(c): "" gives [""]
RECURSIVE SplitOn(_, _)
SplitOn(s, c) ==
    LET k == Find(s, c, 1)
    IN  IF k = 0 THEN <<s>>
        ELSE <<SubSeq(s, 1, k - 1)>> \o SplitOn(SubSeq(s, k + 1, Len(s)), c)

\* Every string over alphabet A of length at most n.
RECURSIVE StringsUpTo(_, _)
StringsUpTo(A, n) ==
    IF n = 0 THEN {""}
    ELSE LET S == StringsUpTo(A, n - 1) IN S \cup {s \o c : s \in S, c \in A}

IsAlpha(c) == c \in LowerLetters \/ c \in UpperLetters

Digits == "0123456789"

IsDigit(c) == \E i \in 1..10 : c = Ch(Digits, i)

DigitVal(c) == (CHOOSE i \in 1..10 : c = Ch(Digits, i)) - 1

RECURSIVE AllDigits(_)
AllDigits(s) == s = "" \/ (IsDigit(Head(s)) /\ AllDigits(Tail(s)))

RECURSIVE DigitsVal(_)
DigitsVal(s) ==
    IF s = "" THEN 0
    ELSE 10 * DigitsVal(SubSeq(s, 1, Len(s) - 1)) + DigitVal(Ch(s, Len(s)))

\* Python int(s) of a token: an optional sign and decimal digits; anything
\* else is a ValueError (ok = FALSE).
PyInt(s) ==
    LET body == IF s # "" /\ Head(s) \in {"+", "-"} THEN Tail(s) ELSE s
        good == body # "" /\ AllDigits(body)
    IN  [ok |-> good,
         val |-> IF ~good THEN 0
                 ELSE IF Head(s) = "-" THEN 0 - DigitsVal(body)
                 ELSE DigitsVal(body)]

RECURSIVE NatToStr(_)
NatToStr(n) ==
    IF n < 10 THEN Ch(Digits, n + 1)
    ELSE NatToStr(n \div 10) \o Ch(Digits, (n % 10) + 1)

\* str(n) of an int
IntToStr(n) == IF n < 0 THEN "-" \o NatToStr(0 - n) ELSE NatToStr(n)

(***************************************************************************)
(* Optional values and dicts.                                              *)
(***************************************************************************)
None == <<>>

Some(x) == <<x>>

\* Python truth value of an Optional[str]
Truthy(o) == o # None /\ o[1] # ""

DictKeys(d) == {d[i].key : i \in 1..Len(d)}

DictHas(d, k) == k \in DictKeys(d)

DictGet(d, k) == d[CHOOSE i \in 1..Len(d) : d[i].key = k].val

\* d[k] = v: an existing key keeps its place, a new key goes last.
DictSet(d, k, v) ==
    IF DictHas(d, k)
    THEN [i \in 1..Len(d) |-> IF d[i].key = k THEN [key |-> k, val |-> v] ELSE d[i]]
    ELSE Append(d, [key |-> k, val |-> v])

DictValues(d) == [i \in 1..Len(d) |-> d[i].val]

(***************************************************************************)
(* expand_env_vars.  Environ is os.environ, an input of the program.       *)
(***************************************************************************)
Environ == [k \in {"HOME", "A"} |-> IF k = "HOME" THEN "/root" ELSE "$HOME"]

IsNameStart(c) == IsAlpha(c) \/ c = "_"

IsNameChar(c) == IsAlpha(c) \/ IsDigit(c) \/ c = "_"

\* The index after the longest run of [A-Za-z0-9_] starting at i.
RECURSIVE NameRun(_, _)
NameRun(s, i) ==
    IF i <= Len(s) /\ IsNameChar(Ch(s, i)) THEN NameRun(s, i + 1) ELSE i

\* replace_var giving the empty string for a name that is not set.
replace_var_empty_when_unset(var_name, whole) ==
    IF var_name \in DOMAIN Environ THEN Environ[var_name] ELSE ""

replace_var(var_name, whole) ==
    IF var_name \in DOMAIN Environ THEN Environ[var_name] ELSE whole

\* re.sub(pattern, replace_var, value) from position i on: matches are found
\* left to right and do not overlap; a replacement is not scanned again.
RECURSIVE ExpandFrom(_, _)
ExpandFrom(s, i) ==
    IF i > Len(s) THEN ""
    ELSE IF Ch(s, i) # "$" THEN Ch(s, i) \o ExpandFrom(s, i + 1)
    ELSE LET e1 == NameRun(s, i + 2)
             braced == /\ i + 2 <= Len(s)
                       /\ Ch(s, i + 1) = "{"
                       /\ IsNameStart(Ch(s, i + 2))
                       /\ e1 <= Len(s)
                       /\ Ch(s, e1) = "}"
             e2 == NameRun(s, i + 1)
             bare == i + 1 <= Len(s) /\ IsNameStart(Ch(s, i + 1))
         IN  IF braced
             THEN replace_var(SubSeq(s, i + 2, e1 - 1), SubSeq(s, i, e1))
                      \o ExpandFrom(s, e1 + 1)
             ELSE IF bare
             THEN replace_var(SubSeq(s, i + 1, e2 - 1), SubSeq(s, i, e2 - 1))
                      \o ExpandFrom(s, e2)
             ELSE "$" \o ExpandFrom(s, i + 1)

expand_env_vars(value) == ExpandFrom(value, 1)

(***************************************************************************)
(* The data model: the dataclasses of agentfile_parser.py.                 *)
(***************************************************************************)
MCPServer(name) ==
    [name |-> name, command |-> None, args |-> <<>>, transport |-> "stdio",
     url |-> None, env |-> <<>>]

Agent(name) ==
    [name |-> name, instruction |-> "You are a helpful agent.", servers |-> <<>>,
     model |-> None, use_history |-> TRUE, human_input |-> FALSE,
     default |-> FALSE, output_format |-> None]

Router(name) ==
    [name |-> name, agents |-> <<>>, model |-> None, instruction |-> None,
     default |-> FALSE]

Chain(name) ==
    [name |-> name, sequence |-> <<>>, instruction |-> None, cumulative |-> FALSE,
     continue_with_final |-> TRUE, default |-> FALSE]

Orchestrator(name) ==
    [name |-> name, agents |-> <<>>, model |-> None, instruction |-> None,
     plan_type |-> "full", plan_iterations |-> 5, human_input |-> FALSE,
     default |-> FALSE]

\* SecretType = Union[str, SecretValue, SecretContext]; kind tells which.
SecretStr(name) == [kind |-> "str", name |-> name, value |-> "", values |-> <<>>]

SecretValue(name, value) ==
    [kind |-> "value", name |-> name, value |-> value, values |-> <<>>]

SecretContext(name, values) ==
    [kind |-> "context", name |-> name, value |-> "", values |-> values]

OutputFormat(type, schema, file) == [type |-> type, schema |-> schema, file |-> file]

DockerfileInstruction(instruction, args) == [instruction |-> instruction, args |-> args]

AgentfileConfig ==
    [base_image |-> "yeahdongcn/agentman-base:latest",
     default_model |-> None,
     framework |-> "fast-agent",
     servers |-> <<>>, agents |-> <<>>, routers |-> <<>>, chains |-> <<>>,
     orchestrators |-> <<>>,
     secrets |-> <<>>,
     expose_ports |-> <<>>,
     cmd |-> <<"python", "agent.py">>,
     dockerfile_instructions |-> <<>>]

(***************************************************************************)
(* A YAML document as yaml.safe_load returns it: a Python value that       *)
(* carries its type t; the value is in the field of that type (s for a     *)
(* str, n for an int, b for a bool, items for a list, and for a dict the   *)
(* [key, val] entries in document order) and the other fields are unused.  *)
(***************************************************************************)
YValue(t, s, n, b, items, entries) ==
    [t |-> t, s |-> s, n |-> n, b |-> b, items |-> items, entries |-> entries]

YNull == YValue("null", "", 0, FALSE, <<>>, <<>>)

YStr(s) == YValue("str", s, 0, FALSE, <<>>, <<>>)

YInt(n) == YValue("int", "", n, FALSE, <<>>, <<>>)

YBool(b) == YValue("bool", "", 0, b, <<>>, <<>>)

YList(items) == YValue("list", "", 0, FALSE, items, <<>>)

YMap(entries) == YValue("map", "", 0, FALSE, <<>>, entries)

(***************************************************************************)
(* State.  tok is the loop state of the tokenizer run on its own.  The     *)
(* rest is one call of AgentfileParser.parse_content: lines is the part of *)
(* content.split('\n') read so far, followed by the locals of the          *)
(* preprocessing loop, the index of the logical line being parsed, and the *)
(* parser object's fields.  pending_began and began are history variables: *)
(* the number of the physical line that began the logical line being       *)
(* accumulated (0 while there is none), and, for every entry of            *)
(* processed_lines, the number of the physical line that began it.         *)
(* yaml_data is the document yaml.safe_load returned to the YAML parser,   *)
(* and reparsed is the parser a conversion ran on the converted text.      *)
(* calls counts the calls of parse_content made on the parser object, the  *)
(* one in progress included.  validation is what validate_agentfile        *)
(* returned and printed, None until it has run.                            *)
(***************************************************************************)
VARIABLES tok, pc, lines, current_line, continued_start_line_num,
          processed_lines, pending_began, began, idx, config, current_context,
          current_item, error, yaml_data, reparsed, calls, validation

vars == <<tok, pc, lines, current_line, continued_start_line_num,
          processed_lines, pending_began, began, idx, config, current_context,
          current_item, error, yaml_data, reparsed, calls,
          validation>>

convVars == <<yaml_data, reparsed>>

preVars == <<lines, current_line, continued_start_line_num, processed_lines,
             pending_began, began>>

parserVars == <<idx, config, current_context, current_item, error>>

(***************************************************************************)
(* AgentfileParser._split_respecting_quotes: the state of its while loop   *)
(* is (i, parts, current, in_quotes, quote_char); i is 0-based in the      *)
(* code and counts the characters consumed here.                           *)
(***************************************************************************)
TokStart(line) ==
    [line |-> line, i |-> 0, parts |-> <<>>, current |-> "",
     in_quotes |-> FALSE, quote_char |-> "", done |-> FALSE]

\* TokBody with `char == quote_char` weakened to "any quote character".
TokBody_any_quote_closes(t, char) ==
    IF ~t.in_quotes /\ IsQuoteChar(char)
    THEN [t EXCEPT !.in_quotes = TRUE, !.quote_char = char,
                   !.current = @ \o char, !.i = @ + 1]
    ELSE IF t.in_quotes /\ IsQuoteChar(char)
    THEN [t EXCEPT !.in_quotes = FALSE, !.quote_char = "",
                   !.current = @ \o char, !.i = @ + 1]
    ELSE IF ~t.in_quotes /\ IsSpace(char)
    THEN IF t.current # ""
         THEN [t EXCEPT !.parts = Append(@, t.current), !.current = "", !.i = @ + 1]
         ELSE [t EXCEPT !.i = @ + 1]
    ELSE [t EXCEPT !.current = @ \o char, !.i = @ + 1]

\* One iteration of the while loop on character char.
TokBody(t, char) ==
    IF ~t.in_quotes /\ IsQuoteChar(char)
    THEN [t EXCEPT !.in_quotes = TRUE, !.quote_char = char,
                   !.current = @ \o char, !.i = @ + 1]
    ELSE IF t.in_quotes /\ char = t.quote_char
    THEN [t EXCEPT !.in_quotes = FALSE, !.quote_char = "",
                   !.current = @ \o char, !.i = @ + 1]
    ELSE IF ~t.in_quotes /\ IsSpace(char)
    THEN IF t.current # ""
         THEN [t EXCEPT !.parts = Append(@, t.current), !.current = "", !.i = @ + 1]
         ELSE [t EXCEPT !.i = @ + 1]
    ELSE [t EXCEPT !.current = @ \o char, !.i = @ + 1]

\* After the loop: the pending token, if any, is appended.
TokEnd(t) ==
    IF t.current # ""
    THEN [t EXCEPT !.parts = Append(@, t.current), !.current = "", !.done = TRUE]
    ELSE [t EXCEPT !.done = TRUE]

RECURSIVE TokRun(_)
TokRun(t) ==
    IF t.i < Len(t.line) THEN TokRun(TokBody(t, Ch(t.line, t.i + 1)))
    ELSE TokEnd(t)

SplitRespectingQuotes(line) == TokRun(TokStart(line)).parts

\* AgentfileParser._unquote
Unquote(s) ==
    IF Len(s) >= 2 /\ Head(s) = Ch(s, Len(s)) /\ IsQuoteChar(Head(s))
    THEN SubSeq(s, 2, Len(s) - 1)
    ELSE s

(***************************************************************************)
(* AgentfileParser: p is the parser object, [config, current_context,      *)
(* current_item], with error = the message of the exception a handler      *)
(* raised ("" while none was raised).  current_context None is "None".     *)
(***************************************************************************)
NoContext == "None"

Parser(cfg, ctx, item) ==
    [config |-> cfg, current_context |-> ctx, current_item |-> item, error |-> ""]

Raise(p, msg) == [p EXCEPT !.error = msg]

\* [f(part) for part in parts[1:]]
Rest(parts) == Tail(parts)

UnquoteAll(parts) == [i \in 1..Len(parts) |-> Unquote(parts[i])]

\* self._unquote(parts[1]).lower() in ['true', '1', 'yes']
BoolArg(parts) == Lower(Unquote(parts[2])) \in {"true", "1", "yes"}

_handle_from(p, parts) ==
    IF Len(parts) < 2 THEN Raise(p, "FROM requires a base image")
    ELSE [p EXCEPT !.config.base_image = Unquote(parts[2]),
                   !.current_context = NoContext]

\* _handle_model leaving the open context as it is.
_handle_model_keeps_context(p, parts) ==
    IF Len(parts) < 2 THEN Raise(p, "MODEL requires a model name")
    ELSE [p EXCEPT !.config.default_model = Some(Unquote(parts[2]))]

_handle_model(p, parts) ==
    IF Len(parts) < 2 THEN Raise(p, "MODEL requires a model name")
    ELSE [p EXCEPT !.config.default_model = Some(Unquote(parts[2])),
                   !.current_context = NoContext]

_handle_framework(p, parts) ==
    IF Len(parts) < 2 THEN Raise(p, "FRAMEWORK requires a framework name")
    ELSE LET framework == Lower(Unquote(parts[2]))
         IN  IF framework \notin {"fast-agent", "agno"}
             THEN Raise(p, "Unsupported framework")
             ELSE [p EXCEPT !.config.framework = framework,
                            !.current_context = NoContext]

_handle_server(p, parts) ==
    IF Len(parts) < 2 THEN Raise(p, "SERVER requires a server name")
    ELSE LET name == Unquote(parts[2])
         IN  [p EXCEPT !.config.servers = DictSet(@, name, MCPServer(name)),
                       !.current_context = "server",
                       !.current_item = Some(name)]

\* _handle_agent keeping an agent that is already declared.
_handle_agent_keep_existing(p, parts) ==
    IF Len(parts) < 2 THEN Raise(p, "AGENT requires an agent name")
    ELSE LET name == Unquote(parts[2])
         IN  [p EXCEPT !.config.agents =
                           IF DictHas(@, name) THEN @ ELSE DictSet(@, name, Agent(name)),
                       !.current_context = "agent",
                       !.current_item = Some(name)]

_handle_agent(p, parts) ==
    IF Len(parts) < 2 THEN Raise(p, "AGENT requires an agent name")
    ELSE LET name == Unquote(parts[2])
         IN  [p EXCEPT !.config.agents = DictSet(@, name, Agent(name)),
                       !.current_context = "agent",
                       !.current_item = Some(name)]

_handle_router(p, parts) ==
    IF Len(parts) < 2 THEN Raise(p, "ROUTER requires a router name")
    ELSE LET name == Unquote(parts[2])
         IN  [p EXCEPT !.config.routers = DictSet(@, name, Router(name)),
                       !.current_context = "router",
                       !.current_item = Some(name)]

_handle_chain(p, parts) ==
    IF Len(parts) < 2 THEN Raise(p, "CHAIN requires a chain name")
    ELSE LET name == Unquote(parts[2])
         IN  [p EXCEPT !.config.chains = DictSet(@, name, Chain(name)),
                       !.current_context = "chain",
                       !.current_item = Some(name)]

_handle_orchestrator(p, parts) ==
    IF Len(parts) < 2 THEN Raise(p, "ORCHESTRATOR requires an orchestrator name")
    ELSE LET name == Unquote(parts[2])
         IN  [p EXCEPT !.config.orchestrators = DictSet(@, name, Orchestrator(name)),
                       !.current_context = "orchestrator",
                       !.current_item = Some(name)]

\* any(isinstance(s, SecretContext) and s.name == name for s in secrets)
HasSecretContext(secrets, name) ==
    \E i \in 1..Len(secrets) : secrets[i].kind = "context" /\ secrets[i].name = name

\* The first SecretContext of that name: the one the code's loops find.
SecretContextIndex(secrets, name) ==
    CHOOSE i \in 1..Len(secrets) :
        /\ secrets[i].kind = "context" /\ secrets[i].name = name
        /\ \A j \in 1..(i - 1) : ~(secrets[j].kind = "context" /\ secrets[j].name = name)

\* _handle_secret without the search for an existing context.
_handle_secret_always_new(p, parts) ==
    IF Len(parts) < 2 THEN Raise(p, "SECRET requires a secret name")
    ELSE LET secret_name == Unquote(parts[2])
         IN  IF Len(parts) >= 3
             THEN LET value == Join(" ", SubSeq(parts, 3, Len(parts)))
                      expanded_value == expand_env_vars(Unquote(value))
                  IN  [p EXCEPT !.config.secrets =
                                    Append(@, SecretValue(secret_name, expanded_value)),
                                !.current_context = NoContext]
             ELSE [p EXCEPT !.config.secrets =
                                Append(@, SecretContext(secret_name, <<>>)),
                            !.current_context = "secret",
                            !.current_item = Some(secret_name)]

_handle_secret(p, parts) ==
    IF Len(parts) < 2 THEN Raise(p, "SECRET requires a secret name")
    ELSE LET secret_name == Unquote(parts[2])
         IN  IF Len(parts) >= 3
             THEN LET value == Join(" ", SubSeq(parts, 3, Len(parts)))
                      expanded_value == expand_env_vars(Unquote(value))
                  IN  [p EXCEPT !.config.secrets =
                                    Append(@, SecretValue(secret_name, expanded_value)),
                                !.current_context = NoContext]
             ELSE IF HasSecretContext(p.config.secrets, secret_name)
             THEN [p EXCEPT !.current_context = "secret",
                            !.current_item = Some(secret_name)]
             ELSE [p EXCEPT !.config.secrets =
                                Append(@, SecretContext(secret_name, <<>>)),
                            !.current_context = "secret",
                            !.current_item = Some(secret_name)]

_handle_secret_sub_instruction(p, instruction, parts) ==
    IF ~Truthy(p.current_item)
    THEN Raise(p, "SECRET sub-instruction without active secret context")
    ELSE IF ~HasSecretContext(p.config.secrets, p.current_item[1])
    THEN Raise(p, "Secret context not found")
    ELSE IF Len(parts) >= 2
    THEN LET k == SecretContextIndex(p.config.secrets, p.current_item[1])
             key == Upper(instruction)
             value == Join(" ", Rest(parts))
             expanded_value == expand_env_vars(Unquote(value))
         IN  [p EXCEPT !.config.secrets[k].values = DictSet(@, key, expanded_value)]
    ELSE Raise(p, "SECRET context requires KEY VALUE format")

\* _handle_expose without the test for a port that is listed already.
_handle_expose_always_appends(p, parts) ==
    IF Len(parts) < 2 THEN Raise(p, "EXPOSE requires a port number")
    ELSE LET port == PyInt(parts[2])
         IN  IF ~port.ok THEN Raise(p, "Invalid port number")
             ELSE [p EXCEPT !.config.expose_ports = Append(@, port.val),
                            !.current_context = NoContext]

_handle_expose(p, parts) ==
    IF Len(parts) < 2 THEN Raise(p, "EXPOSE requires a port number")
    ELSE LET port == PyInt(parts[2])
         IN  IF ~port.ok THEN Raise(p, "Invalid port number")
             ELSE [p EXCEPT !.config.expose_ports =
                                IF \E i \in 1..Len(@) : @[i] = port.val
                                THEN @ ELSE Append(@, port.val),
                            !.current_context = NoContext]

_handle_cmd(p, parts) ==
    IF Len(parts) < 2 THEN Raise(p, "CMD requires at least one argument")
    ELSE IF StartsWith(parts[2], "[") /\ EndsWith(parts[Len(parts)], "]")
    THEN LET cmd_str == StripChars(Join(" ", Rest(parts)), {"[", "]"})
             items == SplitOn(cmd_str, ",")
         IN  [p EXCEPT !.config.cmd =
                           [i \in 1..Len(items) |-> Unquote(Strip(items[i]))],
                       !.current_context = NoContext]
    ELSE [p EXCEPT !.config.cmd = UnquoteAll(Rest(parts)),
                   !.current_context = NoContext]

\* _handle_dockerfile_instruction putting the instruction first in the list.
_handle_dockerfile_instruction_prepends(p, instruction, parts) ==
    IF Len(parts) < 2 THEN Raise(p, instruction \o " requires arguments")
    ELSE [p EXCEPT !.config.dockerfile_instructions =
                       <<DockerfileInstruction(instruction, Rest(parts))>> \o @,
                   !.current_context = NoContext]

\* Both branches of the ENV special case keep parts[1:] as the args.
_handle_dockerfile_instruction(p, instruction, parts) ==
    IF Len(parts) < 2 THEN Raise(p, instruction \o " requires arguments")
    ELSE [p EXCEPT !.config.dockerfile_instructions =
                       Append(@, DockerfileInstruction(instruction, Rest(parts))),
                   !.current_context = NoContext]

\* self.config.<mapping>[self.current_item] raises KeyError on a missing key.
HasItem(d, item) == item # None /\ DictHas(d, item[1])

_handle_server_sub_instruction(p, instruction, parts) ==
    IF ~HasItem(p.config.servers, p.current_item) THEN Raise(p, "KeyError")
    ELSE
    LET name == p.current_item[1]
        server == DictGet(p.config.servers, name)
        Set(rec) == [p EXCEPT !.config.servers = DictSet(@, name, rec)]
    IN  IF instruction = "COMMAND"
        THEN IF Len(parts) < 2 THEN Raise(p, "COMMAND requires a command")
             ELSE Set([server EXCEPT !.command = Some(Unquote(parts[2]))])
        ELSE IF instruction = "ARGS"
        THEN IF Len(parts) < 2 THEN Raise(p, "ARGS requires at least one argument")
             ELSE Set([server EXCEPT !.args = UnquoteAll(Rest(parts))])
        ELSE IF instruction = "TRANSPORT"
        THEN IF Len(parts) < 2 THEN Raise(p, "TRANSPORT requires a transport type")
             ELSE IF Unquote(parts[2]) \notin {"stdio", "sse", "http"}
             THEN Raise(p, "Invalid transport type")
             ELSE Set([server EXCEPT !.transport = Unquote(parts[2])])
        ELSE IF instruction = "URL"
        THEN IF Len(parts) < 2 THEN Raise(p, "URL requires a URL")
             ELSE Set([server EXCEPT !.url = Some(Unquote(parts[2]))])
        ELSE IF instruction = "ENV"
        THEN IF Len(parts) < 2 THEN Raise(p, "ENV requires KEY VALUE or KEY=VALUE")
             ELSE IF Len(parts) = 2
             THEN LET env_part == parts[2]
                      k == Find(env_part, "=", 1)
                  IN  IF k = 0 THEN Raise(p, "ENV requires KEY VALUE or KEY=VALUE")
                      ELSE LET key == Unquote(SubSeq(env_part, 1, k - 1))
                               value == Unquote(SubSeq(env_part, k + 1, Len(env_part)))
                           IN  Set([server EXCEPT
                                       !.env = DictSet(@, key, expand_env_vars(value))])
             ELSE LET key == Unquote(parts[2])
                      value == Unquote(Join(" ", SubSeq(parts, 3, Len(parts))))
                  IN  Set([server EXCEPT
                              !.env = DictSet(@, key, expand_env_vars(value))])
        ELSE p

\* yaml.safe_load of an inline schema is PyYAML's, not this repository's: the
\* loaded value is stood for by the text, and only an unclosed flow mapping
\* is taken to be a YAMLError.
YamlLoadFails(text) == StartsWith(text, "{") /\ ~EndsWith(text, "}")

IsSchemaFile(path) ==
    EndsWith(path, ".json") \/ EndsWith(path, ".yaml") \/ EndsWith(path, ".yml")

_handle_agent_sub_instruction(p, instruction, parts) ==
    IF ~HasItem(p.config.agents, p.current_item) THEN Raise(p, "KeyError")
    ELSE
    LET name == p.current_item[1]
        agent == DictGet(p.config.agents, name)
        Set(rec) == [p EXCEPT !.config.agents = DictSet(@, name, rec)]
    IN  IF instruction = "INSTRUCTION"
        THEN IF Len(parts) < 2 THEN Raise(p, "INSTRUCTION requires instruction text")
             ELSE Set([agent EXCEPT !.instruction = Unquote(Join(" ", Rest(parts)))])
        ELSE IF instruction = "SERVERS"
        THEN IF Len(parts) < 2 THEN Raise(p, "SERVERS requires at least one server name")
             ELSE Set([agent EXCEPT !.servers = UnquoteAll(Rest(parts))])
        ELSE IF instruction = "MODEL"
        THEN IF Len(parts) < 2 THEN Raise(p, "MODEL requires a model name")
             ELSE Set([agent EXCEPT !.model = Some(Unquote(parts[2]))])
        ELSE IF instruction = "USE_HISTORY"
        THEN IF Len(parts) < 2 THEN Raise(p, "USE_HISTORY requires true/false")
             ELSE Set([agent EXCEPT !.use_history = BoolArg(parts)])
        ELSE IF instruction = "HUMAN_INPUT"
        THEN IF Len(parts) < 2 THEN Raise(p, "HUMAN_INPUT requires true/false")
             ELSE Set([agent EXCEPT !.human_input = BoolArg(parts)])
        ELSE IF instruction = "DEFAULT"
        THEN IF Len(parts) < 2 THEN Raise(p, "DEFAULT requires true/false")
             ELSE Set([agent EXCEPT !.default = BoolArg(parts)])
        ELSE IF instruction = "OUTPUT_FORMAT"
        THEN IF Len(parts) < 2 THEN Raise(p, "OUTPUT_FORMAT requires a format type")
             ELSE IF Unquote(parts[2]) = "json_schema"
             THEN IF Len(parts) < 3
                  THEN Raise(p, "OUTPUT_FORMAT json_schema requires a schema definition or file reference")
                  ELSE LET schema_value == Unquote(Join(" ", SubSeq(parts, 3, Len(parts))))
                       IN  IF ~YamlLoadFails(schema_value)
                           THEN Set([agent EXCEPT !.output_format =
                                        Some(OutputFormat("json_schema", Some(schema_value), None))])
                           ELSE IF IsSchemaFile(schema_value)
                           THEN Set([agent EXCEPT !.output_format =
                                        Some(OutputFormat("schema_file", None, Some(schema_value)))])
                           ELSE Raise(p, "OUTPUT_FORMAT json_schema requires valid YAML/JSON schema or file path")
             ELSE IF Unquote(parts[2]) = "schema_file"
             THEN IF Len(parts) < 3
                  THEN Raise(p, "OUTPUT_FORMAT schema_file requires a file path")
                  ELSE IF ~IsSchemaFile(Unquote(parts[3]))
                  THEN Raise(p, "OUTPUT_FORMAT schema_file must reference a .json, .yaml, or .yml file")
                  ELSE Set([agent EXCEPT !.output_format =
                               Some(OutputFormat("schema_file", None, Some(Unquote(parts[3]))))])
             ELSE Raise(p, "Invalid OUTPUT_FORMAT type")
        ELSE p

_handle_router_sub_instruction(p, instruction, parts) ==
    IF ~HasItem(p.config.routers, p.current_item) THEN Raise(p, "KeyError")
    ELSE
    LET name == p.current_item[1]
        router == DictGet(p.config.routers, name)
        Set(rec) == [p EXCEPT !.config.routers = DictSet(@, name, rec)]
    IN  IF instruction = "AGENTS"
        THEN IF Len(parts) < 2 THEN Raise(p, "AGENTS requires at least one agent name")
             ELSE Set([router EXCEPT !.agents = UnquoteAll(Rest(parts))])
        ELSE IF instruction = "MODEL"
        THEN IF Len(parts) < 2 THEN Raise(p, "MODEL requires a model name")
             ELSE Set([router EXCEPT !.model = Some(Unquote(parts[2]))])
        ELSE IF instruction = "INSTRUCTION"
        THEN IF Len(parts) < 2 THEN Raise(p, "INSTRUCTION requires instruction text")
             ELSE Set([router EXCEPT !.instruction = Some(Unquote(Join(" ", Rest(parts))))])
        ELSE IF instruction = "DEFAULT"
        THEN IF Len(parts) < 2 THEN Raise(p, "DEFAULT requires true/false")
             ELSE Set([router EXCEPT !.default = BoolArg(parts)])
        ELSE p

_handle_chain_sub_instruction(p, instruction, parts) ==
    IF ~HasItem(p.config.chains, p.current_item) THEN Raise(p, "KeyError")
    ELSE
    LET name == p.current_item[1]
        chain == DictGet(p.config.chains, name)
        Set(rec) == [p EXCEPT !.config.chains = DictSet(@, name, rec)]
    IN  IF instruction = "SEQUENCE"
        THEN IF Len(parts) < 2 THEN Raise(p, "SEQUENCE requires at least one agent name")
             ELSE Set([chain EXCEPT !.sequence = UnquoteAll(Rest(parts))])
        ELSE IF instruction = "INSTRUCTION"
        THEN IF Len(parts) < 2 THEN Raise(p, "INSTRUCTION requires instruction text")
             ELSE Set([chain EXCEPT !.instruction = Some(Unquote(Join(" ", Rest(parts))))])
        ELSE IF instruction = "CUMULATIVE"
        THEN IF Len(parts) < 2 THEN Raise(p, "CUMULATIVE requires true/false")
             ELSE Set([chain EXCEPT !.cumulative = BoolArg(parts)])
        ELSE IF instruction = "CONTINUE_WITH_FINAL"
        THEN IF Len(parts) < 2 THEN Raise(p, "CONTINUE_WITH_FINAL requires true/false")
             ELSE Set([chain EXCEPT !.continue_with_final = BoolArg(parts)])
        ELSE IF instruction = "DEFAULT"
        THEN IF Len(parts) < 2 THEN Raise(p, "DEFAULT requires true/false")
             ELSE Set([chain EXCEPT !.default = BoolArg(parts)])
        ELSE p

_handle_orchestrator_sub_instruction(p, instruction, parts) ==
    IF ~HasItem(p.config.orchestrators, p.current_item) THEN Raise(p, "KeyError")
    ELSE
    LET name == p.current_item[1]
        orchestrator == DictGet(p.config.orchestrators, name)
        Set(rec) == [p EXCEPT !.config.orchestrators = DictSet(@, name, rec)]
    IN  IF instruction = "AGENTS"
        THEN IF Len(parts) < 2 THEN Raise(p, "AGENTS requires at least one agent name")
             ELSE Set([orchestrator EXCEPT !.agents = UnquoteAll(Rest(parts))])
        ELSE IF instruction = "MODEL"
        THEN IF Len(parts) < 2 THEN Raise(p, "MODEL requires a model name")
             ELSE Set([orchestrator EXCEPT !.model = Some(Unquote(parts[2]))])
        ELSE IF instruction = "INSTRUCTION"
        THEN IF Len(parts) < 2 THEN Raise(p, "INSTRUCTION requires instruction text")
             ELSE Set([orchestrator EXCEPT
                          !.instruction = Some(Unquote(Join(" ", Rest(parts))))])
        ELSE IF instruction = "PLAN_TYPE"
        THEN IF Len(parts) < 2 THEN Raise(p, "PLAN_TYPE requires a plan type")
             ELSE IF Unquote(parts[2]) \notin {"full", "iterative"}
             THEN Raise(p, "Invalid plan type")
             ELSE Set([orchestrator EXCEPT !.plan_type = Unquote(parts[2])])
        ELSE IF instruction = "PLAN_ITERATIONS"
        THEN IF Len(parts) < 2 THEN Raise(p, "PLAN_ITERATIONS requires a number")
             ELSE IF ~PyInt(parts[2]).ok THEN Raise(p, "Invalid number for PLAN_ITERATIONS")
             ELSE Set([orchestrator EXCEPT !.plan_iterations = PyInt(parts[2]).val])
        ELSE IF instruction = "HUMAN_INPUT"
        THEN IF Len(parts) < 2 THEN Raise(p, "HUMAN_INPUT requires true/false")
             ELSE Set([orchestrator EXCEPT !.human_input = BoolArg(parts)])
        ELSE IF instruction = "DEFAULT"
        THEN IF Len(parts) < 2 THEN Raise(p, "DEFAULT requires true/false")
             ELSE Set([orchestrator EXCEPT !.default = BoolArg(parts)])
        ELSE p

\* _handle_sub_instruction raising for a keyword an agent has no field for.
_handle_sub_instruction_rejects_unknown(p, instruction, parts) ==
    IF p.current_context = NoContext
    THEN IF Truthy(p.current_item)
            /\ HasSecretContext(p.config.secrets, p.current_item[1])
         THEN _handle_secret_sub_instruction(
                  [p EXCEPT !.current_context = "secret"], instruction, parts)
         ELSE Raise(p, instruction \o " can only be used within a context (SERVER, AGENT, etc.)")
    ELSE IF p.current_context = "server"
    THEN _handle_server_sub_instruction(p, instruction, parts)
    ELSE IF p.current_context = "agent"
    THEN IF instruction \in {"INSTRUCTION", "SERVERS", "MODEL", "USE_HISTORY",
                             "HUMAN_INPUT", "DEFAULT", "OUTPUT_FORMAT"}
         THEN _handle_agent_sub_instruction(p, instruction, parts)
         ELSE Raise(p, instruction \o " cannot be used within an AGENT context")
    ELSE IF p.current_context = "router"
    THEN _handle_router_sub_instruction(p, instruction, parts)
    ELSE IF p.current_context = "chain"
    THEN _handle_chain_sub_instruction(p, instruction, parts)
    ELSE IF p.current_context = "orchestrator"
    THEN _handle_orchestrator_sub_instruction(p, instruction, parts)
    ELSE IF p.current_context = "secret"
    THEN _handle_secret_sub_instruction(p, instruction, parts)
    ELSE p

\* _handle_sub_instruction without the recovery of a dangling secret context.
_handle_sub_instruction_no_recovery(p, instruction, parts) ==
    IF p.current_context = NoContext
    THEN Raise(p, instruction \o " can only be used within a context (SERVER, AGENT, etc.)")
    ELSE IF p.current_context = "server"
    THEN _handle_server_sub_instruction(p, instruction, parts)
    ELSE IF p.current_context = "agent"
    THEN _handle_agent_sub_instruction(p, instruction, parts)
    ELSE IF p.current_context = "router"
    THEN _handle_router_sub_instruction(p, instruction, parts)
    ELSE IF p.current_context = "chain"
    THEN _handle_chain_sub_instruction(p, instruction, parts)
    ELSE IF p.current_context = "orchestrator"
    THEN _handle_orchestrator_sub_instruction(p, instruction, parts)
    ELSE IF p.current_context = "secret"
    THEN _handle_secret_sub_instruction(p, instruction, parts)
    ELSE p

_handle_sub_instruction(p, instruction, parts) ==
    IF p.current_context = NoContext
    THEN IF Truthy(p.current_item)
            /\ HasSecretContext(p.config.secrets, p.current_item[1])
         THEN _handle_secret_sub_instruction(
                  [p EXCEPT !.current_context = "secret"], instruction, parts)
         ELSE Raise(p, instruction \o " can only be used within a context (SERVER, AGENT, etc.)")
    ELSE IF p.current_context = "server"
    THEN _handle_server_sub_instruction(p, instruction, parts)
    ELSE IF p.current_context = "agent"
    THEN _handle_agent_sub_instruction(p, instruction, parts)
    ELSE IF p.current_context = "router"
    THEN _handle_router_sub_instruction(p, instruction, parts)
    ELSE IF p.current_context = "chain"
    THEN _handle_chain_sub_instruction(p, instruction, parts)
    ELSE IF p.current_context = "orchestrator"
    THEN _handle_orchestrator_sub_instruction(p, instruction, parts)
    ELSE IF p.current_context = "secret"
    THEN _handle_secret_sub_instruction(p, instruction, parts)
    ELSE p

\* The Dockerfile keywords _parse_line stores as they are (RUN included).
GenericInstructions ==
    {"RUN", "ARG", "ADD", "COPY", "ENTRYPOINT", "HEALTHCHECK", "LABEL", "MAINTAINER",
     "ONBUILD", "SHELL", "STOPSIGNAL", "USER", "VOLUME", "WORKDIR", "MOUNT", "BUILDKIT"}

\* The keywords _parse_line hands to _handle_sub_instruction.
SubInstructions ==
    {"COMMAND", "ARGS", "INSTRUCTION", "SERVERS", "AGENTS", "SEQUENCE", "TRANSPORT",
     "URL", "USE_HISTORY", "HUMAN_INPUT", "PLAN_TYPE", "PLAN_ITERATIONS", "CUMULATIVE",
     "API_KEY", "BASE_URL", "DEFAULT", "OUTPUT_FORMAT"}

\* A handler raised: the statements after its call do not run.
Raised(p) == p.error # ""

\* ENV never handled as a sub-instruction.
EnvIsSubInstruction_never(context) == FALSE

\* _parse_line hands ENV to _handle_sub_instruction in a server context.
EnvIsSubInstruction(context) == context # NoContext /\ context = "server"

\* MODEL handled as a sub-instruction in router and orchestrator contexts too.
ModelContexts_with_router == {"agent", "router", "orchestrator"}

\* The contexts in which _parse_line hands MODEL to _handle_sub_instruction.
ModelContexts == {"agent"}

_parse_line(p, line) ==
    LET parts == SplitRespectingQuotes(line)
        instruction == Upper(parts[1])
    IN  IF parts = <<>> THEN p
        ELSE IF instruction = "MODEL"
        THEN IF p.current_context \in ModelContexts
             THEN _handle_sub_instruction(p, instruction, parts)
             ELSE _handle_model(p, parts)
        ELSE IF instruction = "FRAMEWORK" THEN _handle_framework(p, parts)
        ELSE IF instruction \in {"SERVER", "MCP_SERVER"} THEN _handle_server(p, parts)
        ELSE IF instruction = "AGENT" THEN _handle_agent(p, parts)
        ELSE IF instruction = "ROUTER" THEN _handle_router(p, parts)
        ELSE IF instruction = "CHAIN" THEN _handle_chain(p, parts)
        ELSE IF instruction = "ORCHESTRATOR" THEN _handle_orchestrator(p, parts)
        ELSE IF instruction = "SECRET" THEN _handle_secret(p, parts)
        ELSE IF instruction = "FROM"
        THEN LET q == _handle_from(p, parts)
             IN  IF Raised(q) THEN q
                 ELSE _handle_dockerfile_instruction(q, instruction, parts)
        ELSE IF instruction = "EXPOSE"
        THEN LET q == _handle_expose(p, parts)
             IN  IF Raised(q) THEN q
                 ELSE _handle_dockerfile_instruction(q, instruction, parts)
        ELSE IF instruction = "CMD"
        THEN LET q == _handle_cmd(p, parts)
             IN  IF Raised(q) THEN q
                 ELSE [q EXCEPT !.config.dockerfile_instructions =
                                    Append(@, DockerfileInstruction("CMD", q.config.cmd))]
        ELSE IF instruction \in GenericInstructions
        THEN _handle_dockerfile_instruction(p, instruction, parts)
        ELSE IF instruction \in SubInstructions
        THEN _handle_sub_instruction(p, instruction, parts)
        ELSE IF instruction = "ENV"
        THEN IF EnvIsSubInstruction(p.current_context)
             THEN _handle_sub_instruction(p, instruction, parts)
             ELSE _handle_dockerfile_instruction(p, instruction, parts)
        ELSE _handle_dockerfile_instruction(p, instruction, parts)

(***************************************************************************)
(* AgentfileParser.parse_content.  pc is "read" in the preprocessing loop, *)
(* "parse" in the loop over processed_lines, "done" after return           *)
(* self.config and "error" after the ValueError was raised.                *)
(* continued_start_line_num None is 0 (line numbers start at 1).           *)
(***************************************************************************)
NoError == [line_num |-> 0, line |-> "", msg |-> ""]

ParserInit ==
    /\ pc = "read"
    /\ lines = <<>>
    /\ current_line = ""
    /\ continued_start_line_num = 0
    /\ processed_lines = <<>>
    /\ pending_began = 0
    /\ began = <<>>
    /\ idx = 1
    /\ config = AgentfileConfig
    /\ current_context = NoContext
    /\ current_item = None
    /\ error = NoError
    /\ reparsed = Parser(AgentfileConfig, NoContext, None)
    /\ calls = 1
    /\ validation = None

\* The locals of the preprocessing loop.
PreState(cur, start, processed) ==
    [current_line |-> cur, continued_start_line_num |-> start,
     processed_lines |-> processed]

\* PreprocessLine skipping blank and comment lines inside a continuation too.
PreprocessLine_skips_in_continuation(st, line_num, raw) ==
    LET line == RStrip(raw)
        full == st.current_line \o line
    IN  IF line = "" \/ StartsWith(LStrip(line), "#")
        THEN st
        ELSE IF EndsWith(line, "\\")
        THEN [st EXCEPT !.continued_start_line_num =
                            IF st.current_line = "" THEN line_num ELSE @,
                        !.current_line =
                            @ \o RStrip(SubSeq(line, 1, Len(line) - 1)) \o " "]
        ELSE IF Strip(full) # ""
        THEN [st EXCEPT !.processed_lines =
                            Append(@, [line_num |-> IF st.continued_start_line_num # 0
                                                    THEN st.continued_start_line_num
                                                    ELSE line_num,
                                       line |-> Strip(full)]),
                        !.continued_start_line_num = 0,
                        !.current_line = ""]
        ELSE [st EXCEPT !.current_line = ""]

\* The loop body joining a continued fragment to the next one without a space.
PreprocessLine_no_space(st, line_num, raw) ==
    LET line == RStrip(raw)
        full == st.current_line \o line
    IN  IF st.current_line = "" /\ (line = "" \/ StartsWith(LStrip(line), "#"))
        THEN st
        ELSE IF EndsWith(line, "\\")
        THEN [st EXCEPT !.continued_start_line_num =
                            IF st.current_line = "" THEN line_num ELSE @,
                        !.current_line =
                            @ \o RStrip(SubSeq(line, 1, Len(line) - 1))]
        ELSE IF Strip(full) # ""
        THEN [st EXCEPT !.processed_lines =
                            Append(@, [line_num |-> IF st.continued_start_line_num # 0
                                                    THEN st.continued_start_line_num
                                                    ELSE line_num,
                                       line |-> Strip(full)]),
                        !.continued_start_line_num = 0,
                        !.current_line = ""]
        ELSE [st EXCEPT !.current_line = ""]

\* One iteration of `for line_num, line in enumerate(lines, 1)`.
PreprocessLine(st, line_num, raw) ==
    LET line == RStrip(raw)
        full == st.current_line \o line
    IN  IF st.current_line = "" /\ (line = "" \/ StartsWith(LStrip(line), "#"))
        THEN st
        ELSE IF EndsWith(line, "\\")
        THEN [st EXCEPT !.continued_start_line_num =
                            IF st.current_line = "" THEN line_num ELSE @,
                        !.current_line =
                            @ \o RStrip(SubSeq(line, 1, Len(line) - 1)) \o " "]
        ELSE IF Strip(full) # ""
        THEN [st EXCEPT !.processed_lines =
                            Append(@, [line_num |-> IF st.continued_start_line_num # 0
                                                    THEN st.continued_start_line_num
                                                    ELSE line_num,
                                       line |-> Strip(full)]),
                        !.continued_start_line_num = 0,
                        !.current_line = ""]
        ELSE [st EXCEPT !.current_line = ""]

\* "Handle any remaining line" after the loop over n lines.
PreprocessRest(st, n) ==
    IF Strip(st.current_line) # ""
    THEN Append(st.processed_lines,
                [line_num |-> IF st.continued_start_line_num # 0
                              THEN st.continued_start_line_num
                              ELSE n,
                 line |-> Strip(st.current_line)])
    ELSE st.processed_lines

\* The next physical line raw, one of Menu, goes through the loop body; at
\* most max lines are read.
ReadLine(Menu, max) ==
    /\ pc = "read"
    /\ Len(lines) < max
    /\ \E raw \in Menu :
        \E st \in {PreprocessLine(PreState(current_line, continued_start_line_num,
                                           processed_lines), Len(lines) + 1, raw)} :
            LET first == IF current_line = "" THEN Len(lines) + 1 ELSE pending_began
            IN  /\ lines' = Append(lines, raw)
                /\ current_line' = st.current_line
                /\ continued_start_line_num' = st.continued_start_line_num
                /\ processed_lines' = st.processed_lines
                /\ pending_began' = IF st.current_line = "" THEN 0 ELSE first
                /\ began' = IF Len(st.processed_lines) > Len(processed_lines)
                            THEN Append(began, first) ELSE began
    /\ UNCHANGED <<calls, validation, tok, pc, parserVars, convVars>>

\* The end of the loop and "Handle any remaining line".  content.split('\n')
\* has at least one element.
EndOfInput ==
    /\ pc = "read"
    /\ Len(lines) >= 1
    /\ processed_lines' = PreprocessRest(PreState(current_line, continued_start_line_num,
                                                  processed_lines), Len(lines))
    /\ began' = IF Len(processed_lines') > Len(processed_lines)
                THEN Append(began, pending_began) ELSE began
    /\ pc' = "parse"
    /\ UNCHANGED <<calls, validation, tok, lines, current_line, continued_start_line_num,
                   pending_began, parserVars, convVars>>

\* One iteration of `for line_num, line in processed_lines`: _parse_line, and
\* the ValueError that wraps whatever it raised.
ParseLine ==
    /\ pc = "parse"
    /\ idx <= Len(processed_lines)
    /\ \E q \in {_parse_line(Parser(config, current_context, current_item),
                            processed_lines[idx].line)} :
           /\ config' = q.config
           /\ current_context' = q.current_context
           /\ current_item' = q.current_item
           /\ IF q.error # ""
              THEN /\ pc' = "error"
                   /\ error' = [line_num |-> processed_lines[idx].line_num,
                                line |-> processed_lines[idx].line,
                                msg |-> q.error]
                   /\ idx' = idx
              ELSE /\ pc' = pc
                   /\ error' = error
                   /\ idx' = idx + 1
    /\ UNCHANGED <<calls, validation, tok, preVars, convVars>>

\* return self.config
Return ==
    /\ pc = "parse"
    /\ idx > Len(processed_lines)
    /\ pc' = "done"
    /\ UNCHANGED <<calls, validation, tok, preVars, parserVars, convVars>>

\* One more parser.parse_content(content) on the same AgentfileParser object,
\* after a call that returned or raised: the locals of parse_content are new,
\* the fields of the object are what the last call left.
ParseAgain(max) ==
    /\ pc \in {"done", "error"}
    /\ lines # <<>>
    /\ calls < max
    /\ calls' = calls + 1
    /\ pc' = "read"
    /\ lines' = <<>>
    /\ current_line' = ""
    /\ continued_start_line_num' = 0
    /\ processed_lines' = <<>>
    /\ pending_began' = 0
    /\ began' = <<>>
    /\ idx' = 1
    /\ error' = NoError
    /\ UNCHANGED <<tok, config, current_context, current_item, convVars, validation>>

(***************************************************************************)
(* AgentfileParser.parse_content as a function of the text, for the second *)
(* parse of a conversion: the same loop bodies, run to the end.            *)
(***************************************************************************)
RECURSIVE PreprocessFrom(_, _, _)
PreprocessFrom(st, text_lines, k) ==
    IF k > Len(text_lines) THEN PreprocessRest(st, Len(text_lines))
    ELSE PreprocessFrom(PreprocessLine(st, k, text_lines[k]), text_lines, k + 1)

RECURSIVE ParseFrom(_, _, _)
ParseFrom(p, processed, k) ==
    IF k > Len(processed) \/ Raised(p) THEN p
    ELSE ParseFrom(_parse_line(p, processed[k].line), processed, k + 1)

parse_content(content) ==
    ParseFrom(Parser(AgentfileConfig, NoContext, None),
              PreprocessFrom(PreState("", 0, <<>>), SplitOn(content, "\n"), 1), 1)

(***************************************************************************)
(* converter.config_to_dockerfile_content.                                 *)
(***************************************************************************)
\* `if cond: lines.append(line)`
Opt(cond, line) == IF cond THEN <<line>> ELSE <<>>

RECURSIVE Concat(_)
Concat(seqs) == IF seqs = <<>> THEN <<>> ELSE Head(seqs) \o Concat(Tail(seqs))

\* json.dumps of a str: quoted, with " and \ escaped.
RECURSIVE JsonEscape(_)
JsonEscape(s) ==
    IF s = "" THEN ""
    ELSE (IF Head(s) \in {"\"", "\\"} THEN "\\" ELSE "") \o Head(s) \o JsonEscape(Tail(s))

\* json.dumps of a list of str
json_dumps(list) ==
    "[" \o Join(", ", [i \in 1..Len(list) |-> "\"" \o JsonEscape(list[i]) \o "\""]) \o "]"

to_dockerfile_line(di) ==
    IF di.instruction \in {"CMD", "ENTRYPOINT"} /\ Len(di.args) > 1
    THEN di.instruction \o " " \o json_dumps(di.args)
    ELSE di.instruction \o " " \o Join(" ", di.args)

SecretLines(secret) ==
    IF secret.kind = "str" THEN <<"SECRET " \o secret.name>>
    ELSE IF secret.kind = "value"
    THEN <<"SECRET " \o secret.name \o " " \o secret.value>>
    ELSE <<"SECRET " \o secret.name>>
         \o [i \in 1..Len(secret.values) |->
                secret.values[i].key \o " " \o secret.values[i].val]

ServerLines(server) ==
    <<"MCP_SERVER " \o server.name>>
    \o (IF Truthy(server.command) THEN <<"COMMAND " \o server.command[1]>> ELSE <<>>)
    \o Opt(server.args # <<>>, "ARGS " \o Join(" ", server.args))
    \o Opt(server.transport # "stdio", "TRANSPORT " \o server.transport)
    \o (IF Truthy(server.url) THEN <<"URL " \o server.url[1]>> ELSE <<>>)
    \o [i \in 1..Len(server.env) |->
           "ENV " \o server.env[i].key \o " " \o server.env[i].val]
    \o <<"">>

AgentLines(agent) ==
    <<"AGENT " \o agent.name>>
    \o Opt(agent.instruction # "You are a helpful agent.",
           "INSTRUCTION " \o agent.instruction)
    \o Opt(agent.servers # <<>>, "SERVERS " \o Join(" ", agent.servers))
    \o (IF Truthy(agent.model) THEN <<"MODEL " \o agent.model[1]>> ELSE <<>>)
    \o Opt(~agent.use_history, "USE_HISTORY false")
    \o Opt(agent.human_input, "HUMAN_INPUT true")
    \o Opt(agent.default, "DEFAULT true")
    \o <<"">>

RouterLines(router) ==
    <<"ROUTER " \o router.name>>
    \o Opt(router.agents # <<>>, "AGENTS " \o Join(" ", router.agents))
    \o (IF Truthy(router.model) THEN <<"MODEL " \o router.model[1]>> ELSE <<>>)
    \o (IF Truthy(router.instruction)
        THEN <<"INSTRUCTION " \o router.instruction[1]>> ELSE <<>>)
    \o Opt(router.default, "DEFAULT true")
    \o <<"">>

ChainLines(chain) ==
    <<"CHAIN " \o chain.name>>
    \o Opt(chain.sequence # <<>>, "SEQUENCE " \o Join(" ", chain.sequence))
    \o (IF Truthy(chain.instruction)
        THEN <<"INSTRUCTION " \o chain.instruction[1]>> ELSE <<>>)
    \o Opt(chain.cumulative, "CUMULATIVE true")
    \o Opt(~chain.continue_with_final, "CONTINUE_WITH_FINAL false")
    \o Opt(chain.default, "DEFAULT true")
    \o <<"">>

OrchestratorLines(orchestrator) ==
    <<"ORCHESTRATOR " \o orchestrator.name>>
    \o Opt(orchestrator.agents # <<>>, "AGENTS " \o Join(" ", orchestrator.agents))
    \o (IF Truthy(orchestrator.model)
        THEN <<"MODEL " \o orchestrator.model[1]>> ELSE <<>>)
    \o (IF Truthy(orchestrator.instruction)
        THEN <<"INSTRUCTION " \o orchestrator.instruction[1]>> ELSE <<>>)
    \o Opt(orchestrator.plan_type # "full", "PLAN_TYPE " \o orchestrator.plan_type)
    \o Opt(orchestrator.plan_iterations # 5,
           "PLAN_ITERATIONS " \o IntToStr(orchestrator.plan_iterations))
    \o Opt(orchestrator.human_input, "HUMAN_INPUT true")
    \o Opt(orchestrator.default, "DEFAULT true")
    \o <<"">>

\* The lines the function collects, then "\n".join(lines) + "\n".
config_to_dockerfile_content(cfg) ==
    LET ForEach(d, F(_)) == Concat([i \in 1..Len(d) |-> F(d[i])])
        others == SelectSeq(cfg.dockerfile_instructions,
                            LAMBDA di : di.instruction \notin {"FROM", "CMD"})
        text_lines ==
            <<"FROM " \o cfg.base_image>>
            \o Opt(cfg.framework # "fast-agent", "FRAMEWORK " \o cfg.framework)
            \o (IF Truthy(cfg.default_model)
                THEN <<"MODEL " \o cfg.default_model[1]>> ELSE <<>>)
            \o <<"">>
            \o ForEach(cfg.secrets, SecretLines)
            \o Opt(cfg.secrets # <<>>, "")
            \o ForEach(DictValues(cfg.servers), ServerLines)
            \o ForEach(DictValues(cfg.agents), AgentLines)
            \o ForEach(DictValues(cfg.routers), RouterLines)
            \o ForEach(DictValues(cfg.chains), ChainLines)
            \o ForEach(DictValues(cfg.orchestrators), OrchestratorLines)
            \o [i \in 1..Len(others) |-> to_dockerfile_line(others[i])]
            \o [i \in 1..Len(cfg.expose_ports) |->
                   "EXPOSE " \o IntToStr(cfg.expose_ports[i])]
            \o (IF cfg.cmd = <<"python", "agent.py">> THEN <<>>
                ELSE IF Len(cfg.cmd) = 1 THEN <<"CMD " \o cfg.cmd[1]>>
                ELSE <<"CMD " \o json_dumps(cfg.cmd)>>)
    IN  Join("\n", text_lines) \o "\n"

\* Parse, serialize, parse again: AgentfileParser().parse_content on
\* config_to_dockerfile_content(self.config) after the first parse returned.
ReparseDockerfile ==
    /\ pc = "done"
    /\ reparsed' = parse_content(config_to_dockerfile_content(config))
    /\ pc' = "reparsed"
    /\ UNCHANGED <<calls, validation, tok, preVars, parserVars, yaml_data>>

(***************************************************************************)
(* converter.validate_agentfile.  What it prints is kept without the mark  *)
(* that begins each message.                                               *)
(***************************************************************************)
\* The inner loop `for server_name in agent.servers` from the k-th name on:
\* the message of the first name that is not a key of servers, "" if none.
RECURSIVE UndefinedServerFrom(_, _, _)
UndefinedServerFrom(cfg, agent, k) ==
    IF k > Len(agent.servers) THEN ""
    ELSE IF ~DictHas(cfg.servers, agent.servers[k])
    THEN "Validation failed: Agent '" \o agent.name \o "' references undefined server '"
             \o agent.servers[k] \o "'"
    ELSE UndefinedServerFrom(cfg, agent, k + 1)

\* The outer loop `for agent in config.agents.values()` from the i-th agent on.
RECURSIVE UndefinedAgentServerFrom(_, _)
UndefinedAgentServerFrom(cfg, i) ==
    IF i > Len(cfg.agents) THEN ""
    ELSE LET found == UndefinedServerFrom(cfg, cfg.agents[i].val, 1)
         IN  IF found # "" THEN found ELSE UndefinedAgentServerFrom(cfg, i + 1)

\* The validator looking for undefined servers before it counts the agents
\* and looks at the base image.
validate_agentfile_servers_first(p) ==
    IF Raised(p)
    THEN [valid |-> FALSE, printed |-> "Validation failed: " \o p.error]
    ELSE LET found == UndefinedAgentServerFrom(p.config, 1)
         IN  IF found # "" THEN [valid |-> FALSE, printed |-> found]
             ELSE IF p.config.agents = <<>>
             THEN [valid |-> FALSE, printed |-> "Validation failed: No agents defined"]
             ELSE IF p.config.base_image = ""
             THEN [valid |-> FALSE, printed |-> "Validation failed: Missing base image"]
             ELSE [valid |-> TRUE, printed |-> "Agentfile is valid"]

\* validate_agentfile when parse_agentfile left the parser p: raised, or
\* returned p.config.
validate_agentfile(p) ==
    IF Raised(p)
    THEN [valid |-> FALSE, printed |-> "Validation failed: " \o p.error]
    ELSE IF p.config.base_image = ""
    THEN [valid |-> FALSE, printed |-> "Validation failed: Missing base image"]
    ELSE IF p.config.agents = <<>>
    THEN [valid |-> FALSE, printed |-> "Validation failed: No agents defined"]
    ELSE LET found == UndefinedAgentServerFrom(p.config, 1)
         IN  IF found # "" THEN [valid |-> FALSE, printed |-> found]
             ELSE [valid |-> TRUE, printed |-> "Agentfile is valid"]

\* The rest of validate_agentfile, once its parse has returned or raised.
\* The ValueError of the Dockerfile parser reads "Error parsing line N: text"
\* and then the handler's message.
Validate ==
    /\ pc \in {"done", "error"}
    /\ validation = None
    /\ validation' =
           Some(validate_agentfile(
               [config |-> config,
                error |-> IF pc = "done" THEN ""
                          ELSE IF lines = <<>> THEN error.msg
                          ELSE "Error parsing line " \o IntToStr(error.line_num) \o ": "
                                   \o error.line \o "\n" \o error.msg]))
    /\ pc' = "validated"
    /\ UNCHANGED <<calls, tok, preVars, parserVars, convVars>>

(***************************************************************************)
(* Python on the values of a YAML document.                                *)
(***************************************************************************)
Entry(k, v) == [key |-> k, val |-> v]

\* `if cond: d[k] = v`
OptEntry(cond, k, v) == IF cond THEN <<Entry(k, v)>> ELSE <<>>

\* `k in d` for a dict d
YHas(d, k) == d.t = "map" /\ DictHas(d.entries, k)

\* d[k]
YGet(d, k) == DictGet(d.entries, k)

\* d.get(k, default)
YGetOr(d, k, default) == IF YHas(d, k) THEN YGet(d, k) ELSE default

\* bool(x), and the truth value `if x` tests
YTruthy(x) ==
    IF x.t = "null" THEN FALSE
    ELSE IF x.t = "bool" THEN x.b
    ELSE IF x.t = "int" THEN x.n # 0
    ELSE IF x.t = "str" THEN x.s # ""
    ELSE IF x.t = "list" THEN x.items # <<>>
    ELSE x.entries # <<>>

\* isinstance(x, int): bool is a subclass of int, True is 1 and False is 0.
YIsInt(x) == x.t \in {"int", "bool"}

YIntVal(x) == IF x.t = "bool" THEN (IF x.b THEN 1 ELSE 0) ELSE x.n

\* A value stored in a field annotated Optional[str].
YOptStr(x) == IF x.t = "null" THEN None ELSE Some(x.s)

\* A list of str stored in a field annotated List[str].
YStrList(x) == [i \in 1..Len(x.items) |-> x.items[i].s]

YStrs(list) == YList([i \in 1..Len(list) |-> YStr(list[i])])

\* {key: expand_env_vars(value) for key, value in d.items()}
YExpandedDict(d) ==
    [i \in 1..Len(d.entries) |->
        Entry(d.entries[i].key, expand_env_vars(d.entries[i].val.s))]

YStrDict(d) == YMap([i \in 1..Len(d) |-> Entry(d[i].key, YStr(d[i].val))])

(***************************************************************************)
(* converter.config_to_yaml_dict.  The dict is written with yaml.dump and  *)
(* read back with yaml.safe_load (PyYAML), which returns the same strings, *)
(* integers, booleans, lists and dicts in the same order.                  *)
(***************************************************************************)
ServerDict(server) ==
    YMap(<<Entry("name", YStr(server.name))>>
         \o (IF Truthy(server.command)
             THEN <<Entry("command", YStr(server.command[1]))>> ELSE <<>>)
         \o OptEntry(server.args # <<>>, "args", YStrs(server.args))
         \o OptEntry(server.transport # "stdio", "transport", YStr(server.transport))
         \o (IF Truthy(server.url) THEN <<Entry("url", YStr(server.url[1]))>> ELSE <<>>)
         \o OptEntry(server.env # <<>>, "env", YStrDict(server.env)))

AgentDict(agent) ==
    YMap(<<Entry("name", YStr(agent.name))>>
         \o OptEntry(agent.instruction # "You are a helpful agent.",
                     "instruction", YStr(agent.instruction))
         \o OptEntry(agent.servers # <<>>, "servers", YStrs(agent.servers))
         \o (IF Truthy(agent.model) THEN <<Entry("model", YStr(agent.model[1]))>> ELSE <<>>)
         \o OptEntry(~agent.use_history, "use_history", YBool(agent.use_history))
         \o OptEntry(agent.human_input, "human_input", YBool(agent.human_input))
         \o OptEntry(agent.default, "default", YBool(agent.default)))

RouterDict(router) ==
    YMap(<<Entry("name", YStr(router.name))>>
         \o OptEntry(router.agents # <<>>, "agents", YStrs(router.agents))
         \o (IF Truthy(router.model)
             THEN <<Entry("model", YStr(router.model[1]))>> ELSE <<>>)
         \o (IF Truthy(router.instruction)
             THEN <<Entry("instruction", YStr(router.instruction[1]))>> ELSE <<>>)
         \o OptEntry(router.default, "default", YBool(router.default)))

ChainDict(chain) ==
    YMap(<<Entry("name", YStr(chain.name))>>
         \o OptEntry(chain.sequence # <<>>, "sequence", YStrs(chain.sequence))
         \o (IF Truthy(chain.instruction)
             THEN <<Entry("instruction", YStr(chain.instruction[1]))>> ELSE <<>>)
         \o OptEntry(chain.cumulative, "cumulative", YBool(chain.cumulative))
         \o OptEntry(~chain.continue_with_final, "continue_with_final",
                     YBool(chain.continue_with_final))
         \o OptEntry(chain.default, "default", YBool(chain.default)))

OrchestratorDict(orchestrator) ==
    YMap(<<Entry("name", YStr(orchestrator.name))>>
         \o OptEntry(orchestrator.agents # <<>>, "agents", YStrs(orchestrator.agents))
         \o (IF Truthy(orchestrator.model)
             THEN <<Entry("model", YStr(orchestrator.model[1]))>> ELSE <<>>)
         \o (IF Truthy(orchestrator.instruction)
             THEN <<Entry("instruction", YStr(orchestrator.instruction[1]))>> ELSE <<>>)
         \o OptEntry(orchestrator.plan_type # "full", "plan_type",
                     YStr(orchestrator.plan_type))
         \o OptEntry(orchestrator.plan_iterations # 5, "plan_iterations",
                     YInt(orchestrator.plan_iterations))
         \o OptEntry(orchestrator.human_input, "human_input",
                     YBool(orchestrator.human_input))
         \o OptEntry(orchestrator.default, "default", YBool(orchestrator.default)))

SecretItem(secret) ==
    IF secret.kind = "str" THEN YStr(secret.name)
    ELSE IF secret.kind = "value"
    THEN YMap(<<Entry("name", YStr(secret.name)), Entry("value", YStr(secret.value))>>)
    ELSE YMap(<<Entry("name", YStr(secret.name)),
                Entry("values", YStrDict(secret.values))>>)

InstructionDict(di) ==
    YMap(<<Entry("instruction", YStr(di.instruction)), Entry("args", YStrs(di.args))>>)

config_to_yaml_dict(cfg) ==
    LET base_config ==
            OptEntry(cfg.base_image # "yeahdongcn/agentman-base:latest",
                     "image", YStr(cfg.base_image))
            \o (IF Truthy(cfg.default_model)
                THEN <<Entry("model", YStr(cfg.default_model[1]))>> ELSE <<>>)
            \o OptEntry(cfg.framework # "fast-agent", "framework", YStr(cfg.framework))
        dockerfile_list ==
            SelectSeq(cfg.dockerfile_instructions,
                      LAMBDA di : di.instruction \notin {"FROM", "CMD"})
    IN  YMap(<<Entry("apiVersion", YStr("v1")), Entry("kind", YStr("Agent"))>>
             \o OptEntry(base_config # <<>>, "base", YMap(base_config))
             \o OptEntry(cfg.servers # <<>>, "mcp_servers",
                         YList([i \in 1..Len(cfg.servers) |-> ServerDict(cfg.servers[i].val)]))
             \o OptEntry(cfg.agents # <<>>, "agents",
                         YList([i \in 1..Len(cfg.agents) |-> AgentDict(cfg.agents[i].val)]))
             \o OptEntry(cfg.routers # <<>>, "routers",
                         YList([i \in 1..Len(cfg.routers) |-> RouterDict(cfg.routers[i].val)]))
             \o OptEntry(cfg.chains # <<>>, "chains",
                         YList([i \in 1..Len(cfg.chains) |-> ChainDict(cfg.chains[i].val)]))
             \o OptEntry(cfg.orchestrators # <<>>, "orchestrators",
                         YList([i \in 1..Len(cfg.orchestrators) |->
                                   OrchestratorDict(cfg.orchestrators[i].val)]))
             \o OptEntry(cfg.cmd # <<"python", "agent.py">>, "command", YStrs(cfg.cmd))
             \o OptEntry(cfg.secrets # <<>>, "secrets",
                         YList([i \in 1..Len(cfg.secrets) |-> SecretItem(cfg.secrets[i])]))
             \o OptEntry(cfg.expose_ports # <<>>, "expose",
                         YList([i \in 1..Len(cfg.expose_ports) |->
                                   YInt(cfg.expose_ports[i])]))
             \o OptEntry(dockerfile_list # <<>>, "dockerfile",
                         YList([i \in 1..Len(dockerfile_list) |->
                                   InstructionDict(dockerfile_list[i])])))

(***************************************************************************)
(* AgentfileYamlParser: y is the parser object, [config], with error as in *)
(* AgentfileParser.  The documents the model reads hold a dict wherever    *)
(* the code indexes or tests `in` without a type check, and a string where *)
(* it stores a value in a field annotated str; iterating or indexing None  *)
(* is the TypeError Python raises.                                         *)
(***************************************************************************)
YamlParser(cfg) == [config |-> cfg, error |-> ""]

YIsList(x) == x.t = "list"

YIsDict(x) == x.t = "map"

_parse_base(y, base_config) ==
    IF ~YIsDict(base_config) THEN Raise(y, "TypeError")
    ELSE LET y1 == IF YHas(base_config, "image")
                   THEN [y EXCEPT !.config.base_image = YGet(base_config, "image").s]
                   ELSE y
             y2 == IF YHas(base_config, "model")
                   THEN [y1 EXCEPT !.config.default_model =
                                       YOptStr(YGet(base_config, "model"))]
                   ELSE y1
         IN  IF YHas(base_config, "framework")
             THEN LET framework == Lower(YGet(base_config, "framework").s)
                  IN  IF framework \notin {"fast-agent", "agno"}
                      THEN Raise(y2, "Unsupported framework")
                      ELSE [y2 EXCEPT !.config.framework = framework]
             ELSE y2

\* The body of the loop of _parse_mcp_servers.
_parse_mcp_server(y, server_config) ==
    IF ~YIsDict(server_config) THEN Raise(y, "TypeError")
    ELSE IF ~YHas(server_config, "name") THEN Raise(y, "MCP server must have a 'name' field")
    ELSE IF YHas(server_config, "args") /\ ~YIsList(YGet(server_config, "args"))
    THEN Raise(y, "MCP server 'args' must be a list")
    ELSE IF YHas(server_config, "transport")
            /\ YGet(server_config, "transport").s \notin {"stdio", "sse", "http"}
    THEN Raise(y, "Invalid transport type")
    ELSE IF YHas(server_config, "env") /\ ~YIsDict(YGet(server_config, "env"))
    THEN Raise(y, "MCP server 'env' must be a dictionary")
    ELSE LET name == YGet(server_config, "name").s
             server ==
                 [name |-> name,
                  command |-> IF YHas(server_config, "command")
                              THEN YOptStr(YGet(server_config, "command")) ELSE None,
                  args |-> IF YHas(server_config, "args")
                           THEN YStrList(YGet(server_config, "args")) ELSE <<>>,
                  transport |-> IF YHas(server_config, "transport")
                                THEN YGet(server_config, "transport").s ELSE "stdio",
                  url |-> IF YHas(server_config, "url")
                          THEN YOptStr(YGet(server_config, "url")) ELSE None,
                  env |-> IF YHas(server_config, "env")
                          THEN YExpandedDict(YGet(server_config, "env")) ELSE <<>>]
         IN  [y EXCEPT !.config.servers = DictSet(@, name, server)]

RECURSIVE _parse_mcp_servers_from(_, _, _)
_parse_mcp_servers_from(y, items, k) ==
    IF k > Len(items) \/ Raised(y) THEN y
    ELSE _parse_mcp_servers_from(_parse_mcp_server(y, items[k]), items, k + 1)

_parse_mcp_servers(y, servers_config) ==
    IF ~YIsList(servers_config) THEN Raise(y, "TypeError")
    ELSE _parse_mcp_servers_from(y, servers_config.items, 1)

\* The output_format part of _parse_agent: the OutputFormat, or the message
\* of the ValueError.
ParseOutputFormat(output_format_config) ==
    LET Err(msg) == [ok |-> FALSE, msg |-> msg, value |-> None]
        Ok(v) == [ok |-> TRUE, msg |-> "", value |-> Some(v)]
    IN  IF ~YIsDict(output_format_config)
        THEN Err("Agent 'output_format' must be an object")
        ELSE IF ~YHas(output_format_config, "type")
        THEN Err("Agent 'output_format' must have a 'type' field")
        ELSE IF YGet(output_format_config, "type") = YStr("json_schema")
        THEN IF ~YHas(output_format_config, "schema")
             THEN Err("Agent 'output_format' with type 'json_schema' must have a 'schema' field")
             ELSE IF ~YIsDict(YGet(output_format_config, "schema"))
             THEN Err("Agent 'output_format' schema must be an object")
             ELSE Ok(OutputFormat("json_schema",
                                  Some(YGet(output_format_config, "schema")), None))
        ELSE IF YGet(output_format_config, "type") = YStr("schema_file")
        THEN IF ~YHas(output_format_config, "file")
             THEN Err("Agent 'output_format' with type 'schema_file' must have a 'file' field")
             ELSE IF YGet(output_format_config, "file").t # "str"
             THEN Err("Agent 'output_format' file must be a string")
             ELSE IF ~IsSchemaFile(YGet(output_format_config, "file").s)
             THEN Err("Agent 'output_format' file must reference a .json, .yaml, or .yml file")
             ELSE Ok(OutputFormat("schema_file", None,
                                  Some(YGet(output_format_config, "file").s)))
        ELSE Err("Invalid output_format type")

\* _parse_agent leaving alone an agent the mapping already has under the name.
_parse_agent_keeps_first(y, agent_config) ==
    IF ~YTruthy(agent_config) THEN y
    ELSE IF ~YIsDict(agent_config) THEN Raise(y, "TypeError")
    ELSE IF ~YHas(agent_config, "name") THEN Raise(y, "Agent must have a 'name' field")
    ELSE IF DictHas(y.config.agents, YGet(agent_config, "name").s) THEN y
    ELSE [y EXCEPT !.config.agents =
              Append(@, Entry(YGet(agent_config, "name").s,
                              [Agent(YGet(agent_config, "name").s) EXCEPT !.instruction =
                                   IF YHas(agent_config, "instruction")
                                   THEN YGet(agent_config, "instruction").s ELSE @]))]

_parse_agent(y, agent_config) ==
    IF ~YTruthy(agent_config) THEN y
    ELSE IF ~YIsDict(agent_config) THEN Raise(y, "TypeError")
    ELSE IF ~YHas(agent_config, "name") THEN Raise(y, "Agent must have a 'name' field")
    ELSE IF YHas(agent_config, "servers") /\ ~YIsList(YGet(agent_config, "servers"))
    THEN Raise(y, "Agent 'servers' must be a list")
    ELSE LET name == YGet(agent_config, "name").s
             of == IF YHas(agent_config, "output_format")
                   THEN ParseOutputFormat(YGet(agent_config, "output_format"))
                   ELSE [ok |-> TRUE, msg |-> "", value |-> None]
             agent ==
                 [name |-> name,
                  instruction |-> IF YHas(agent_config, "instruction")
                                  THEN YGet(agent_config, "instruction").s
                                  ELSE "You are a helpful agent.",
                  servers |-> IF YHas(agent_config, "servers")
                              THEN YStrList(YGet(agent_config, "servers")) ELSE <<>>,
                  model |-> IF YHas(agent_config, "model")
                            THEN YOptStr(YGet(agent_config, "model")) ELSE None,
                  use_history |-> IF YHas(agent_config, "use_history")
                                  THEN YTruthy(YGet(agent_config, "use_history")) ELSE TRUE,
                  human_input |-> IF YHas(agent_config, "human_input")
                                  THEN YTruthy(YGet(agent_config, "human_input")) ELSE FALSE,
                  default |-> IF YHas(agent_config, "default")
                              THEN YTruthy(YGet(agent_config, "default")) ELSE FALSE,
                  output_format |-> of.value]
         IN  IF ~of.ok THEN Raise(y, of.msg)
             ELSE [y EXCEPT !.config.agents = DictSet(@, name, agent)]

RECURSIVE _parse_agents_from(_, _, _)
_parse_agents_from(y, items, k) ==
    IF k > Len(items) \/ Raised(y) THEN y
    ELSE _parse_agents_from(_parse_agent(y, items[k]), items, k + 1)

_parse_agents(y, agents_config) == _parse_agents_from(y, agents_config, 1)

\* The body of the loop of _parse_routers.
_parse_router(y, router_config) ==
    IF ~YIsDict(router_config) THEN Raise(y, "TypeError")
    ELSE IF ~YHas(router_config, "name") THEN Raise(y, "Router must have a 'name' field")
    ELSE IF YHas(router_config, "agents") /\ ~YIsList(YGet(router_config, "agents"))
    THEN Raise(y, "Router 'agents' must be a list")
    ELSE LET name == YGet(router_config, "name").s
             router ==
                 [name |-> name,
                  agents |-> IF YHas(router_config, "agents")
                             THEN YStrList(YGet(router_config, "agents")) ELSE <<>>,
                  model |-> IF YHas(router_config, "model")
                            THEN YOptStr(YGet(router_config, "model")) ELSE None,
                  instruction |-> IF YHas(router_config, "instruction")
                                  THEN YOptStr(YGet(router_config, "instruction"))
                                  ELSE None,
                  default |-> IF YHas(router_config, "default")
                              THEN YTruthy(YGet(router_config, "default")) ELSE FALSE]
         IN  [y EXCEPT !.config.routers = DictSet(@, name, router)]

RECURSIVE _parse_routers_from(_, _, _)
_parse_routers_from(y, items, k) ==
    IF k > Len(items) \/ Raised(y) THEN y
    ELSE _parse_routers_from(_parse_router(y, items[k]), items, k + 1)

_parse_routers(y, routers_config) ==
    IF ~YIsList(routers_config) THEN Raise(y, "TypeError")
    ELSE _parse_routers_from(y, routers_config.items, 1)

\* The body of the loop of _parse_chains.
_parse_chain(y, chain_config) ==
    IF ~YIsDict(chain_config) THEN Raise(y, "TypeError")
    ELSE IF ~YHas(chain_config, "name") THEN Raise(y, "Chain must have a 'name' field")
    ELSE IF YHas(chain_config, "sequence") /\ ~YIsList(YGet(chain_config, "sequence"))
    THEN Raise(y, "Chain 'sequence' must be a list")
    ELSE LET name == YGet(chain_config, "name").s
             chain ==
                 [name |-> name,
                  sequence |-> IF YHas(chain_config, "sequence")
                               THEN YStrList(YGet(chain_config, "sequence")) ELSE <<>>,
                  instruction |-> IF YHas(chain_config, "instruction")
                                  THEN YOptStr(YGet(chain_config, "instruction"))
                                  ELSE None,
                  cumulative |-> IF YHas(chain_config, "cumulative")
                                 THEN YTruthy(YGet(chain_config, "cumulative")) ELSE FALSE,
                  continue_with_final |->
                      IF YHas(chain_config, "continue_with_final")
                      THEN YTruthy(YGet(chain_config, "continue_with_final")) ELSE TRUE,
                  default |-> IF YHas(chain_config, "default")
                              THEN YTruthy(YGet(chain_config, "default")) ELSE FALSE]
         IN  [y EXCEPT !.config.chains = DictSet(@, name, chain)]

RECURSIVE _parse_chains_from(_, _, _)
_parse_chains_from(y, items, k) ==
    IF k > Len(items) \/ Raised(y) THEN y
    ELSE _parse_chains_from(_parse_chain(y, items[k]), items, k + 1)

_parse_chains(y, chains_config) ==
    IF ~YIsList(chains_config) THEN Raise(y, "TypeError")
    ELSE _parse_chains_from(y, chains_config.items, 1)

\* int(x) of a document value
YInt_of(x) ==
    IF YIsInt(x) THEN [ok |-> TRUE, val |-> YIntVal(x)]
    ELSE IF x.t = "str" THEN PyInt(Strip(x.s))
    ELSE [ok |-> FALSE, val |-> 0]

\* The body of the loop of _parse_orchestrators.
_parse_orchestrator(y, orchestrator_config) ==
    IF ~YIsDict(orchestrator_config) THEN Raise(y, "TypeError")
    ELSE IF ~YHas(orchestrator_config, "name")
    THEN Raise(y, "Orchestrator must have a 'name' field")
    ELSE IF YHas(orchestrator_config, "agents")
            /\ ~YIsList(YGet(orchestrator_config, "agents"))
    THEN Raise(y, "Orchestrator 'agents' must be a list")
    ELSE IF YHas(orchestrator_config, "plan_type")
            /\ YGet(orchestrator_config, "plan_type").s \notin {"full", "iterative"}
    THEN Raise(y, "Invalid plan type")
    ELSE IF YHas(orchestrator_config, "plan_iterations")
            /\ ~YInt_of(YGet(orchestrator_config, "plan_iterations")).ok
    THEN Raise(y, "invalid literal for int()")
    ELSE LET name == YGet(orchestrator_config, "name").s
             orchestrator ==
                 [name |-> name,
                  agents |-> IF YHas(orchestrator_config, "agents")
                             THEN YStrList(YGet(orchestrator_config, "agents")) ELSE <<>>,
                  model |-> IF YHas(orchestrator_config, "model")
                            THEN YOptStr(YGet(orchestrator_config, "model")) ELSE None,
                  instruction |-> IF YHas(orchestrator_config, "instruction")
                                  THEN YOptStr(YGet(orchestrator_config, "instruction"))
                                  ELSE None,
                  plan_type |-> IF YHas(orchestrator_config, "plan_type")
                                THEN YGet(orchestrator_config, "plan_type").s ELSE "full",
                  plan_iterations |->
                      IF YHas(orchestrator_config, "plan_iterations")
                      THEN YInt_of(YGet(orchestrator_config, "plan_iterations")).val
                      ELSE 5,
                  human_input |-> IF YHas(orchestrator_config, "human_input")
                                  THEN YTruthy(YGet(orchestrator_config, "human_input"))
                                  ELSE FALSE,
                  default |-> IF YHas(orchestrator_config, "default")
                              THEN YTruthy(YGet(orchestrator_config, "default"))
                              ELSE FALSE]
         IN  [y EXCEPT !.config.orchestrators = DictSet(@, name, orchestrator)]

RECURSIVE _parse_orchestrators_from(_, _, _)
_parse_orchestrators_from(y, items, k) ==
    IF k > Len(items) \/ Raised(y) THEN y
    ELSE _parse_orchestrators_from(_parse_orchestrator(y, items[k]), items, k + 1)

_parse_orchestrators(y, orchestrators_config) ==
    IF ~YIsList(orchestrators_config) THEN Raise(y, "TypeError")
    ELSE _parse_orchestrators_from(y, orchestrators_config.items, 1)

_parse_command(y, command_config) ==
    IF ~YTruthy(command_config) THEN y
    ELSE IF YIsList(command_config)
    THEN [y EXCEPT !.config.cmd = YStrList(command_config)]
    ELSE Raise(y, "Command must be a list")

\* The body of the loop of _parse_secrets.
_parse_secret(y, secret_config) ==
    IF secret_config.t = "str"
    THEN [y EXCEPT !.config.secrets = Append(@, SecretStr(secret_config.s))]
    ELSE IF ~YIsDict(secret_config) THEN Raise(y, "Secret must be a string or dictionary")
    ELSE IF ~YHas(secret_config, "name") THEN Raise(y, "Secret must have a 'name' field")
    ELSE LET name == YGet(secret_config, "name").s
         IN  IF YHas(secret_config, "value")
             THEN [y EXCEPT !.config.secrets =
                       Append(@, SecretValue(name,
                                     expand_env_vars(YGet(secret_config, "value").s)))]
             ELSE IF YHas(secret_config, "values")
             THEN IF YIsDict(YGet(secret_config, "values"))
                  THEN [y EXCEPT !.config.secrets =
                            Append(@, SecretContext(name,
                                          YExpandedDict(YGet(secret_config, "values"))))]
                  ELSE Raise(y, "Secret 'values' must be a dictionary")
             ELSE [y EXCEPT !.config.secrets = Append(@, SecretStr(name))]

RECURSIVE _parse_secrets_from(_, _, _)
_parse_secrets_from(y, items, k) ==
    IF k > Len(items) \/ Raised(y) THEN y
    ELSE _parse_secrets_from(_parse_secret(y, items[k]), items, k + 1)

_parse_secrets(y, secrets_config) ==
    IF ~YIsList(secrets_config) THEN Raise(y, "TypeError")
    ELSE _parse_secrets_from(y, secrets_config.items, 1)

\* The body of the loop of _parse_expose_ports.
_parse_expose_port(y, port) ==
    IF YIsInt(port)
    THEN IF \E i \in 1..Len(y.config.expose_ports) :
                y.config.expose_ports[i] = YIntVal(port)
         THEN y
         ELSE [y EXCEPT !.config.expose_ports = Append(@, YIntVal(port))]
    ELSE Raise(y, "Expose port must be an integer")

RECURSIVE _parse_expose_ports_from(_, _, _)
_parse_expose_ports_from(y, items, k) ==
    IF k > Len(items) \/ Raised(y) THEN y
    ELSE _parse_expose_ports_from(_parse_expose_port(y, items[k]), items, k + 1)

_parse_expose_ports(y, expose_config) ==
    IF ~YIsList(expose_config) THEN Raise(y, "TypeError")
    ELSE _parse_expose_ports_from(y, expose_config.items, 1)

\* The body of the loop of _parse_dockerfile_instructions.
_parse_dockerfile_instruction(y, instruction_config) ==
    IF ~YIsDict(instruction_config) THEN Raise(y, "TypeError")
    ELSE IF ~YHas(instruction_config, "instruction") \/ ~YHas(instruction_config, "args")
    THEN Raise(y, "Dockerfile instruction must have 'instruction' and 'args' fields")
    ELSE IF YIsList(YGet(instruction_config, "args"))
    THEN [y EXCEPT !.config.dockerfile_instructions =
              Append(@, DockerfileInstruction(
                            Upper(YGet(instruction_config, "instruction").s),
                            YStrList(YGet(instruction_config, "args"))))]
    ELSE Raise(y, "Dockerfile instruction 'args' must be a list")

RECURSIVE _parse_dockerfile_instructions_from(_, _, _)
_parse_dockerfile_instructions_from(y, items, k) ==
    IF k > Len(items) \/ Raised(y) THEN y
    ELSE _parse_dockerfile_instructions_from(
             _parse_dockerfile_instruction(y, items[k]), items, k + 1)

_parse_dockerfile_instructions(y, dockerfile_config) ==
    IF ~YIsList(dockerfile_config) THEN Raise(y, "TypeError")
    ELSE _parse_dockerfile_instructions_from(y, dockerfile_config.items, 1)

\* AgentfileYamlParser.parse_content on the document data = yaml.safe_load(content),
\* called on a parser object whose config field is cfg.
yaml_parse_content_on(cfg, data) ==
    LET y0 == YamlParser(cfg)
        Step(y, Go(_)) == IF Raised(y) THEN y ELSE Go(y)
        Base(y) == _parse_base(y, YGetOr(data, "base", YMap(<<>>)))
        Servers(y) == _parse_mcp_servers(y, YGetOr(data, "mcp_servers", YList(<<>>)))
        Agents(y) ==
            IF YHas(data, "agents") /\ ~YIsList(YGet(data, "agents"))
            THEN Raise(y, "TypeError")
            ELSE _parse_agents(y, (IF YHas(data, "agent") THEN <<YGet(data, "agent")>>
                                   ELSE <<>>)
                                  \o (IF YHas(data, "agents") THEN YGet(data, "agents").items
                                      ELSE <<>>))
        Routers(y) == _parse_routers(y, YGetOr(data, "routers", YList(<<>>)))
        Chains(y) == _parse_chains(y, YGetOr(data, "chains", YList(<<>>)))
        Orchestrators(y) ==
            _parse_orchestrators(y, YGetOr(data, "orchestrators", YList(<<>>)))
        Command(y) == _parse_command(y, YGetOr(data, "command", YList(<<>>)))
        Secrets(y) == _parse_secrets(y, YGetOr(data, "secrets", YList(<<>>)))
        Expose(y) == _parse_expose_ports(y, YGetOr(data, "expose", YList(<<>>)))
        Dockerfile(y) ==
            _parse_dockerfile_instructions(y, YGetOr(data, "dockerfile", YList(<<>>)))
    IN  IF ~YTruthy(data) THEN y0
        ELSE IF ~YIsDict(data) THEN Raise(y0, "AttributeError")
        ELSE IF YGetOr(data, "apiVersion", YStr("v1")) # YStr("v1")
        THEN Raise(y0, "Unsupported API version")
        ELSE IF YGetOr(data, "kind", YStr("Agent")) # YStr("Agent")
        THEN Raise(y0, "Unsupported kind")
        ELSE Step(Step(Step(Step(Step(Step(Step(Step(Step(Base(y0),
                 Servers), Agents), Routers), Chains), Orchestrators),
                 Command), Secrets), Expose), Dockerfile)

\* AgentfileYamlParser().parse_content(content): the call on a new parser
\* object, whose config is the one __init__ made.
yaml_parse_content(data) == yaml_parse_content_on(AgentfileConfig, data)

\* The first parse_content of a YAML parser object on the document yaml_data,
\* instead of a parse of Dockerfile syntax.
YamlParseContent ==
    /\ pc = "read"
    /\ lines = <<>>
    /\ yaml_data # YNull
    /\ \E y \in {yaml_parse_content_on(config, yaml_data)} :
           /\ config' = y.config
           /\ pc' = IF Raised(y) THEN "error" ELSE "done"
           /\ error' = [line_num |-> 0, line |-> "", msg |-> y.error]
    /\ UNCHANGED <<calls, validation, tok, preVars, idx, current_context, current_item, convVars>>

\* One more parser.parse_content(content) on the same AgentfileYamlParser
\* object, on a document of Docs, after a call that returned or raised.
YamlParseAgain(Docs, max) ==
    /\ pc \in {"done", "error"}
    /\ lines = <<>>
    /\ calls < max
    /\ calls' = calls + 1
    /\ \E data \in Docs :
        \E y \in {yaml_parse_content_on(config, data)} :
           /\ yaml_data' = data
           /\ config' = y.config
           /\ pc' = IF Raised(y) THEN "error" ELSE "done"
           /\ error' = [line_num |-> 0, line |-> "", msg |-> y.error]
    /\ UNCHANGED <<tok, preVars, idx, current_context, current_item, reparsed,
                   validation>>

\* dockerfile_to_yaml on the parsed text, yaml_to_dockerfile on its output,
\* and a parse of that: config_to_yaml_dict, the YAML parser,
\* config_to_dockerfile_content, AgentfileParser().parse_content.
ConvertViaYaml ==
    /\ pc = "done"
    /\ yaml_data' = config_to_yaml_dict(config)
    /\ \E y \in {yaml_parse_content(yaml_data')} :
           reparsed' = IF Raised(y)
                       THEN Raise(Parser(y.config, NoContext, None), y.error)
                       ELSE parse_content(config_to_dockerfile_content(y.config))
    /\ pc' = "reparsed"
    /\ UNCHANGED <<calls, validation, tok, preVars, parserVars>>

\* config_to_yaml_dict on the Configuration the YAML parser returned, and a
\* new AgentfileYamlParser on the document it gives.
ReparseYaml ==
    /\ pc = "done"
    /\ lines = <<>>
    /\ \E y \in {yaml_parse_content(config_to_yaml_dict(config))} :
           reparsed' = IF Raised(y)
                       THEN Raise(Parser(y.config, NoContext, None), y.error)
                       ELSE Parser(y.config, NoContext, None)
    /\ pc' = "reparsed"
    /\ UNCHANGED <<calls, validation, tok, preVars, parserVars, yaml_data>>

(***************************************************************************)
(* Parses of secret blocks.                                                *)
(***************************************************************************)
SecretMenu ==
    {"SECRET s", "SECRET t", "API_KEY k1", "API_KEY k2", "BASE_URL u",
     "SECRET s v", "FROM x"}

SecretNext == ReadLine(SecretMenu, MaxLines) \/ EndOfInput \/ ParseLine \/ Return

DfInit == tok = TokStart("") /\ ParserInit /\ yaml_data = YNull

SecretSpec == DfInit /\ [][SecretNext]_vars

(***************************************************************************)
(* Parses that open, leave and reopen contexts: every context keyword on   *)
(* the name e, instructions that close the context, and sub-instructions   *)
(* with and without an argument.                                           *)
(***************************************************************************)
MaxContextLines == 3

ContextMenu ==
    {"SERVER e", "MCP_SERVER e", "AGENT e", "ROUTER e", "CHAIN e", "ORCHESTRATOR e",
     "SECRET e", "SECRET \"\"", "FROM x", "DEFAULT true", "COMMAND c", "INSTRUCTION hi", "API_KEY"}

ContextNext ==
    \/ ReadLine(ContextMenu, MaxContextLines)
    \/ EndOfInput
    \/ ParseLine
    \/ Return

ContextSpec == DfInit /\ [][ContextNext]_vars

(***************************************************************************)
(* Parses that mix declarations, secret lines and the instructions kept in *)
(* dockerfile_instructions, one of them with a port that is no number.     *)
(***************************************************************************)
MaxGrowLines == 3

GrowMenu ==
    {"FROM x", "EXPOSE 80", "EXPOSE p", "CMD c", "RUN a b", "BOGUS z", "AGENT a",
     "AGENT b", "SERVER s", "SECRET s", "SECRET s v", "API_KEY k"}

GrowNext ==
    \/ ReadLine(GrowMenu, MaxGrowLines)
    \/ EndOfInput
    \/ ParseLine
    \/ Return

GrowSpec == DfInit /\ [][GrowNext]_vars

(***************************************************************************)
(* Exposed ports: a parse of EXPOSE lines, or the YAML parser on a         *)
(* document with an `expose` list of at most MaxExposeList items.          *)
(***************************************************************************)
MaxExposeLines == 3

MaxExposeList == 3

ExposeMenu == {"EXPOSE 80", "EXPOSE 81", "EXPOSE 080", "RUN a"}

ExposeItems == {YInt(80), YInt(81), YStr("80")}

ExposeDocs ==
    {YMap(<<Entry("expose", YList(items))>>) :
        items \in UNION {[1..n -> ExposeItems] : n \in 0..MaxExposeList}}

ExposeInit == tok = TokStart("") /\ ParserInit /\ yaml_data \in ExposeDocs

ExposeNext ==
    \/ ReadLine(ExposeMenu, MaxExposeLines)
    \/ EndOfInput
    \/ ParseLine
    \/ Return
    \/ YamlParseContent

ExposeSpec == ExposeInit /\ [][ExposeNext]_vars

(***************************************************************************)
(* Parses of continued lines: fragments that end in a backslash, indented  *)
(* fragments, a quoted text that runs over two fragments, a backslash on   *)
(* its own and a blank line.                                               *)
(***************************************************************************)
MaxContinuationLines == 3

ContinuationMenu ==
    {"\\", "", "FROM x", "BOGUS", "RUN a \\", "  b \\", "  c", "AGENT a",
     "INSTRUCTION \"p \\", "  q\""}

ContinuationNext ==
    \/ ReadLine(ContinuationMenu, MaxContinuationLines)
    \/ EndOfInput
    \/ ParseLine
    \/ Return

ContinuationSpec == DfInit /\ [][ContinuationNext]_vars

(***************************************************************************)
(* Parses that fail: lines whose handler raises among lines that are       *)
(* accepted, after a blank line or a backslash on its own, or the YAML     *)
(* parser on a document whose sections are absent, well formed or          *)
(* malformed.                                                              *)
(***************************************************************************)
MaxFailLines == 3

FailMenu ==
    {"FROM x", "AGENT a", "AGENT", "INSTRUCTION hi", "EXPOSE p", "BOGUS", "\\", ""}

FailDocs ==
    {YMap(Concat(<<kind, base, secrets, expose>>)) :
        kind \in {<<>>, <<Entry("kind", YStr("Pod"))>>},
        base \in {<<>>, <<Entry("base", YMap(<<Entry("image", YStr("x"))>>))>>,
                  <<Entry("base", YMap(<<Entry("framework", YStr("other"))>>))>>},
        secrets \in {<<>>, <<Entry("secrets", YList(<<YStr("s")>>))>>,
                     <<Entry("secrets", YList(<<YStr("s"), YInt(1)>>))>>},
        expose \in {<<>>, <<Entry("expose", YList(<<YInt(80)>>))>>,
                    <<Entry("expose", YList(<<YInt(80), YStr("81")>>))>>}}

FailInit == tok = TokStart("") /\ ParserInit /\ yaml_data \in FailDocs

FailNext ==
    \/ ReadLine(FailMenu, MaxFailLines)
    \/ EndOfInput
    \/ ParseLine
    \/ Return
    \/ YamlParseContent

FailSpec == FailInit /\ [][FailNext]_vars

(***************************************************************************)
(* Up to MaxCalls calls of parse_content on one parser object: an          *)
(* AgentfileParser when there is no YAML document, an AgentfileYamlParser  *)
(* when there is one.                                                      *)
(***************************************************************************)
MaxCalls == 2

MaxRepeatLines == 2

RepeatMenu == {"RUN a", "AGENT a", "INSTRUCTION hi", "EXPOSE 80", "BOGUS"}

RepeatDocs ==
    {YMap(<<Entry("base", YMap(<<Entry("image", YStr("x"))>>))>>),
     YMap(<<Entry("secrets", YList(<<YStr("s")>>))>>),
     YMap(<<Entry("expose", YList(<<YInt(80)>>))>>),
     YMap(<<Entry("command", YStr("c"))>>)}

RepeatInit == tok = TokStart("") /\ ParserInit /\ yaml_data \in RepeatDocs \cup {YNull}

RepeatNext ==
    \/ yaml_data = YNull /\ ReadLine(RepeatMenu, MaxRepeatLines)
    \/ EndOfInput
    \/ ParseLine
    \/ Return
    \/ ParseAgain(MaxCalls)
    \/ YamlParseContent
    \/ YamlParseAgain(RepeatDocs, MaxCalls)

RepeatSpec == RepeatInit /\ [][RepeatNext]_vars

(***************************************************************************)
(* Validation of parsed texts: with and without a base image, agents, and  *)
(* servers the agents name.                                                *)
(***************************************************************************)
MaxValidateLines == 4

ValidateMenu ==
    {"FROM \"\"", "AGENT a", "AGENT b", "SERVERS s t", "SERVERS t", "SERVERS s",
     "SERVER s", "BOGUS"}

ValidateNext ==
    \/ ReadLine(ValidateMenu, MaxValidateLines)
    \/ EndOfInput
    \/ ParseLine
    \/ Return
    \/ Validate

ValidateSpec == DfInit /\ [][ValidateNext]_vars

(***************************************************************************)
(* The YAML parser on documents with or without an `agent` block and with  *)
(* an `agents` list of at most MaxAgentList entries; names repeat, and a   *)
(* block can be empty.                                                     *)
(***************************************************************************)
MaxAgentList == 2

AgentBlock(name, instruction) ==
    YMap(<<Entry("name", YStr(name)), Entry("instruction", YStr(instruction))>>)

AgentBlocks == {YMap(<<>>), AgentBlock("a", "one"), AgentBlock("b", "two")}

AgentItems == {YMap(<<>>), AgentBlock("a", "three"), AgentBlock("b", "two"),
               AgentBlock("c", "four")}

AgentDocs ==
    {YMap(Concat(<<kind, agent, agents>>)) :
        kind \in {<<Entry("kind", YStr("Agent"))>>},
        agent \in {<<>>} \cup {<<Entry("agent", block)>> : block \in AgentBlocks},
        agents \in {<<>>} \cup
                   {<<Entry("agents", YList(items))>> :
                       items \in UNION {[1..n -> AgentItems] : n \in 0..MaxAgentList}}}

AgentsInit == tok = TokStart("") /\ ParserInit /\ yaml_data \in AgentDocs

AgentsNext == YamlParseContent \/ Validate

AgentsSpec == AgentsInit /\ [][AgentsNext]_vars

(***************************************************************************)
(* Entrypoint declarations: ENTRYPOINT lines in both forms and without     *)
(* arguments, or the YAML parser on a document with an `entrypoint` that   *)
(* is a list, an empty list or a string.                                   *)
(***************************************************************************)
MaxEntrypointLines == 3

EntrypointMenu == {"ENTRYPOINT [\"a\", \"b\"]", "ENTRYPOINT a b", "ENTRYPOINT", "CMD c", "FROM x"}

EntrypointDocs ==
    {YMap(Concat(<<entrypoint, command>>)) :
        entrypoint \in {<<Entry("entrypoint", YList(<<YStr("a"), YStr("b")>>))>>,
                        <<Entry("entrypoint", YList(<<>>))>>,
                        <<Entry("entrypoint", YStr("a"))>>},
        command \in {<<Entry("kind", YStr("Agent"))>>,
                     <<Entry("command", YList(<<YStr("c")>>))>>}}

EntrypointInit == tok = TokStart("") /\ ParserInit /\ yaml_data \in EntrypointDocs

EntrypointNext ==
    \/ ReadLine(EntrypointMenu, MaxEntrypointLines)
    \/ EndOfInput
    \/ ParseLine
    \/ Return
    \/ YamlParseContent

EntrypointSpec == EntrypointInit /\ [][EntrypointNext]_vars

(***************************************************************************)
(* The YAML parser on documents with and without apiVersion and kind, of   *)
(* the supported value or another, before sections that would apply.      *)
(***************************************************************************)
VersionDocs ==
    {YMap(Concat(<<version, kind, base, secrets, expose>>)) :
        version \in {<<>>, <<Entry("apiVersion", YStr("v1"))>>,
                     <<Entry("apiVersion", YStr("v2"))>>},
        kind \in {<<>>, <<Entry("kind", YStr("Agent"))>>, <<Entry("kind", YStr("Pod"))>>},
        base \in {<<>>, <<Entry("base", YMap(<<Entry("image", YStr("x"))>>))>>},
        secrets \in {<<>>, <<Entry("secrets", YList(<<YStr("s")>>))>>},
        expose \in {<<>>, <<Entry("expose", YList(<<YInt(80)>>))>>}}

VersionInit == tok = TokStart("") /\ ParserInit /\ yaml_data \in VersionDocs

VersionNext == YamlParseContent

VersionSpec == VersionInit /\ [][VersionNext]_vars

(***************************************************************************)
(* Ports at and beyond the ends of the port range: EXPOSE lines, or the    *)
(* YAML parser on a document with an `expose` list of at most MaxPortList  *)
(* items.                                                                  *)
(***************************************************************************)
MaxPortLines == 2

MaxPortList == 2

PortMenu ==
    {"EXPOSE 1", "EXPOSE 65535", "EXPOSE 0", "EXPOSE -1", "EXPOSE 65536", "EXPOSE x", "RUN a"}

PortItems == {YInt(1), YInt(65535), YInt(0), YInt(-1), YInt(65536), YBool(TRUE), YStr("80")}

PortDocs ==
    {YMap(<<Entry("expose", YList(items))>>) :
        items \in UNION {[1..n -> PortItems] : n \in 0..MaxPortList}}

PortInit == tok = TokStart("") /\ ParserInit /\ yaml_data \in PortDocs

PortNext ==
    \/ ReadLine(PortMenu, MaxPortLines)
    \/ EndOfInput
    \/ ParseLine
    \/ Return
    \/ YamlParseContent

PortSpec == PortInit /\ [][PortNext]_vars

(***************************************************************************)
(* The YAML parser on documents with a `secrets` list of at most           *)
(* MaxSecretList entries: references, inline values and blocks of values,  *)
(* whose names and keys repeat.                                            *)
(***************************************************************************)
MaxSecretList == 3

SecretBlock(name, key, value) ==
    YMap(<<Entry("name", YStr(name)),
           Entry("values", YMap(<<Entry(key, YStr(value))>>))>>)

SecretItems ==
    {SecretBlock("s", "A", "1"), SecretBlock("s", "B", "2"), SecretBlock("s", "A", "3"),
     SecretBlock("t", "A", "1"), YStr("s"),
     YMap(<<Entry("name", YStr("s")), Entry("value", YStr("v"))>>)}

SecretDocs ==
    {YMap(<<Entry("secrets", YList(items))>>) :
        items \in UNION {[1..n -> SecretItems] : n \in 0..MaxSecretList}}

YamlSecretInit == tok = TokStart("") /\ ParserInit /\ yaml_data \in SecretDocs

YamlSecretNext == YamlParseContent

YamlSecretSpec == YamlSecretInit /\ [][YamlSecretNext]_vars

(***************************************************************************)
(* Environment expansion: one-line parses of `SECRET n value`, whose value *)
(* goes through expand_env_vars, for every value over ExpandAlphabet of at *)
(* most MaxValueLen characters.  In Environ A is set, to a text that is    *)
(* itself a reference to a name that is set, and B is not.                 *)
(***************************************************************************)
MaxValueLen == 5

ExpandAlphabet == {"$", "{", "}", "A", "B", "_"}

ExpandMenu ==
    {"SECRET n " \o value : value \in StringsUpTo(ExpandAlphabet, MaxValueLen) \ {""}}

ExpandNext ==
    \/ ReadLine(ExpandMenu, 1)
    \/ EndOfInput
    \/ ParseLine
    \/ Return

ExpandSpec == DfInit /\ [][ExpandNext]_vars

(***************************************************************************)
(* Parses in which a context is opened, an instruction that is handled     *)
(* once follows, and a sub-instruction comes after it.                     *)
(***************************************************************************)
MaxOneShotLines == 3

OneShotMenu ==
    {"SERVER e", "AGENT e", "ROUTER e", "CHAIN e", "ORCHESTRATOR e", "SECRET e",
     "FROM x", "MODEL m", "MODEL d", "EXPOSE 80", "CMD c", "FRAMEWORK agno", "SECRET k v",
     "RUN a", "BOGUS z", "ENV K V", "INSTRUCTION hi"}

OneShotNext ==
    \/ ReadLine(OneShotMenu, MaxOneShotLines)
    \/ EndOfInput
    \/ ParseLine
    \/ Return

OneShotSpec == DfInit /\ [][OneShotNext]_vars

(***************************************************************************)
(* Lines whose keyword is written in quotes, beside the same lines with    *)
(* the keyword bare.                                                       *)
(***************************************************************************)
MaxQuotedLines == 3

QuotedMenu ==
    {"\"AGENT\" e", "AGENT e", "\"FROM\" x", "FROM x", "'MODEL' m", "MODEL m",
     "\"INSTRUCTION\" hi", "INSTRUCTION hi", "'SECRET' k", "\"run\" a"}

QuotedNext ==
    \/ ReadLine(QuotedMenu, MaxQuotedLines)
    \/ EndOfInput
    \/ ParseLine
    \/ Return

QuotedSpec == DfInit /\ [][QuotedNext]_vars

(***************************************************************************)
(* Chains and their sub-instructions, CONTINUE_WITH_FINAL among them, with *)
(* and without an open chain context.                                      *)
(***************************************************************************)
MaxChainLines == 3

ChainMenu ==
    {"CHAIN c", "CHAIN d", "CONTINUE_WITH_FINAL false", "CONTINUE_WITH_FINAL yes",
     "CONTINUE_WITH_FINAL", "CUMULATIVE true", "SEQUENCE a b", "FROM x"}

ChainNext ==
    \/ ReadLine(ChainMenu, MaxChainLines)
    \/ EndOfInput
    \/ ParseLine
    \/ Return

ChainSpec == DfInit /\ [][ChainNext]_vars

(***************************************************************************)
(* ENV lines in both syntaxes, inside a server context and outside one.    *)
(***************************************************************************)
MaxEnvLines == 3

EnvMenu ==
    {"SERVER e", "AGENT e", "SECRET e", "ENV K $HOME", "ENV K=$HOME",
     "ENV \"K\" 'a b'", "ENV J=v w", "ENV K", "FROM x"}

EnvNext ==
    \/ ReadLine(EnvMenu, MaxEnvLines)
    \/ EndOfInput
    \/ ParseLine
    \/ Return

EnvSpec == DfInit /\ [][EnvNext]_vars

(***************************************************************************)
(* Blank lines and comment lines, alone and after a line that ends in a    *)
(* backslash.                                                              *)
(***************************************************************************)
MaxCommentLines == 3

CommentMenu ==
    {"", "   ", "# c", "  # c", "  # d \\", "RUN a \\", "\\", "FROM x", "  b"}

CommentNext ==
    \/ ReadLine(CommentMenu, MaxCommentLines)
    \/ EndOfInput
    \/ ParseLine
    \/ Return

CommentSpec == DfInit /\ [][CommentNext]_vars

(***************************************************************************)
(* The YAML parser, config_to_yaml_dict on what it returned, and the YAML  *)
(* parser again: documents with an agent that has or lacks an              *)
(* output_format, dockerfile entries, and fields away from their defaults. *)
(***************************************************************************)
MaxInverseList == 2

InverseAgents ==
    {<<Entry("name", YStr("a"))>>,
     <<Entry("name", YStr("a")), Entry("model", YStr("m")), Entry("use_history", YBool(FALSE))>>,
     <<Entry("name", YStr("a")),
       Entry("output_format", YMap(<<Entry("type", YStr("schema_file")),
                                     Entry("file", YStr("s.json"))>>))>>,
     <<Entry("name", YStr("a")),
       Entry("output_format", YMap(<<Entry("type", YStr("json_schema")),
                                     Entry("schema", YMap(<<Entry("type", YStr("object"))>>))>>))>>}

InverseInstructions ==
    {YMap(<<Entry("instruction", YStr(k)), Entry("args", YList(<<YStr("x")>>))>>) :
        k \in {"RUN", "FROM", "CMD"}}

InverseDocs ==
    {YMap(Concat(<<base, agents, chains, expose, dockerfile>>)) :
        base \in {<<>>, <<Entry("base", YMap(<<Entry("image", YStr("x"))>>))>>},
        agents \in {<<>>} \cup {<<Entry("agents", YList(<<YMap(a)>>))>> : a \in InverseAgents},
        chains \in {<<>>,
                    <<Entry("chains", YList(<<YMap(<<Entry("name", YStr("c")),
                                                     Entry("continue_with_final", YBool(FALSE))>>)>>))>>},
        expose \in {<<>>, <<Entry("expose", YList(<<YInt(80)>>))>>},
        dockerfile \in {<<>>} \cup
                       {<<Entry("dockerfile", YList(items))>> :
                           items \in UNION {[1..n -> InverseInstructions] : n \in 1..MaxInverseList}}}

InverseInit == tok = TokStart("") /\ ParserInit /\ yaml_data \in InverseDocs

InverseNext == YamlParseContent \/ ReparseYaml

InverseSpec == InverseInit /\ [][InverseNext]_vars

(***************************************************************************)
(* A secret block and another entry of the same name, an instruction that  *)
(* closes the context, and a sub-instruction after it.                     *)
(***************************************************************************)
MaxDanglingLines == 4

DanglingMenu ==
    {"SECRET x", "AGENT x", "SERVER x", "FROM y", "INSTRUCTION hi", "API_KEY k"}

DanglingNext ==
    \/ ReadLine(DanglingMenu, MaxDanglingLines)
    \/ EndOfInput
    \/ ParseLine
    \/ Return

DanglingSpec == DfInit /\ [][DanglingNext]_vars

(***************************************************************************)
(* Routers and orchestrators with and without a model, read by the YAML    *)
(* parser, serialized to Dockerfile syntax and parsed again.               *)
(***************************************************************************)
MaxModelEntries == 1

ModelRouters ==
    {YMap(Concat(<<<<Entry("name", YStr("r"))>>, model, instruction, default>>)) :
        model \in {<<>>, <<Entry("model", YStr("m"))>>},
        instruction \in {<<>>, <<Entry("instruction", YStr("route"))>>},
        default \in {<<>>, <<Entry("default", YBool(TRUE))>>}}

ModelOrchestrators ==
    {YMap(Concat(<<<<Entry("name", YStr("o"))>>, model, instruction, plan, human_input>>)) :
        model \in {<<>>, <<Entry("model", YStr("m"))>>},
        instruction \in {<<>>, <<Entry("instruction", YStr("plan"))>>},
        plan \in {<<>>, <<Entry("plan_type", YStr("iterative")),
                          Entry("plan_iterations", YInt(3))>>},
        human_input \in {<<>>, <<Entry("human_input", YBool(TRUE))>>}}

ModelDocs ==
    {YMap(Concat(<<base, routers, orchestrators>>)) :
        base \in {<<>>, <<Entry("base", YMap(<<Entry("model", YStr("d"))>>))>>},
        routers \in {<<Entry("routers", YList(items))>> :
                        items \in UNION {[1..n -> ModelRouters] : n \in 0..MaxModelEntries}},
        orchestrators \in {<<Entry("orchestrators", YList(items))>> :
                              items \in UNION {[1..n -> ModelOrchestrators] :
                                                  n \in 0..MaxModelEntries}}}

ModelTripInit == tok = TokStart("") /\ ParserInit /\ yaml_data \in ModelDocs

ModelTripNext == YamlParseContent \/ ReparseDockerfile

ModelTripSpec == ModelTripInit /\ [][ModelTripNext]_vars

(***************************************************************************)
(* Sub-instructions inside contexts of every kind, among them keywords the *)
(* kind has no field for.                                                  *)
(***************************************************************************)
MaxFrameLines == 3

FrameMenu ==
    {"SERVER e", "AGENT e", "ROUTER e", "CHAIN e", "ORCHESTRATOR e",
     "COMMAND c", "COMMAND", "SERVERS s", "SEQUENCE a", "INSTRUCTION hi",
     "PLAN_TYPE iterative", "TRANSPORT udp", "FROM x"}

FrameNext ==
    \/ ReadLine(FrameMenu, MaxFrameLines)
    \/ EndOfInput
    \/ ParseLine
    \/ Return

FrameSpec == DfInit /\ [][FrameNext]_vars

(***************************************************************************)
(* Parse, serialize to Dockerfile syntax, parse again.                     *)
(***************************************************************************)
RoundTripMenu ==
    {"FROM x", "MODEL m", "SECRET s", "API_KEY k", "AGENT a", "INSTRUCTION hi there",
     "EXPOSE 80", "RUN a b", "CMD c"}

RoundTripNext ==
    \/ ReadLine(RoundTripMenu, MaxLines)
    \/ EndOfInput
    \/ ParseLine
    \/ Return
    \/ ReparseDockerfile

RoundTripSpec == DfInit /\ [][RoundTripNext]_vars

(***************************************************************************)
(* Parse, convert to YAML and back to Dockerfile syntax, parse again.      *)
(***************************************************************************)
AgentMenu ==
    {"SERVER s", "AGENT a", "AGENT b", "AGENT \"a b\"", "INSTRUCTION Be brief",
     "INSTRUCTION \"x  y\"", "SERVERS s t", "SERVERS \"s t\"", "MODEL m"}

YamlTripNext ==
    \/ ReadLine(AgentMenu, MaxLines)
    \/ EndOfInput
    \/ ParseLine
    \/ Return
    \/ ConvertViaYaml

YamlTripSpec == DfInit /\ [][YamlTripNext]_vars

(***************************************************************************)
(* The tokenizer on its own: every line over TokAlphabet of at most        *)
(* MaxTokLen characters, one loop iteration per step.                      *)
(***************************************************************************)
TokAlphabet == {"a", " ", "\"", "'"}

TokInit ==
    /\ tok \in {TokStart(l) : l \in StringsUpTo(TokAlphabet, MaxTokLen)}
    /\ ParserInit
    /\ yaml_data = YNull

TokStep ==
    /\ ~tok.done
    /\ tok.i < Len(tok.line)
    /\ tok' = TokBody(tok, Ch(tok.line, tok.i + 1))
    /\ UNCHANGED <<calls, validation, pc, preVars, parserVars, convVars>>

TokFinish ==
    /\ ~tok.done
    /\ tok.i = Len(tok.line)
    /\ tok' = TokEnd(tok)
    /\ UNCHANGED <<calls, validation, pc, preVars, parserVars, convVars>>

TokNext == TokStep \/ TokFinish

TokSpec == TokInit /\ [][TokNext]_vars

(***************************************************************************)
(* What the claims are stated with.                                        *)
(***************************************************************************)
\* The logical line the next ParseLine step handles, and its tokens.
Parsing == pc = "parse" /\ idx <= Len(processed_lines)

CurLine == processed_lines[idx].line

CurParts == SplitRespectingQuotes(CurLine)

CurInstruction == Upper(CurParts[1])

\* The logical lines handled so far, in order.
Handled == [k \in 1..(idx - 1) |-> processed_lines[k].line]

\* The quote character that is open after the first k characters of line
\* ("" when none is): a quote opens at a quote character outside quotes and
\* closes at the next occurrence of the same character.
RECURSIVE QuoteAfter(_, _)
QuoteAfter(line, k) ==
    IF k = 0 THEN ""
    ELSE LET q == QuoteAfter(line, k - 1)
             c == Ch(line, k)
         IN  IF q = "" THEN (IF IsQuoteChar(c) THEN c ELSE "")
             ELSE IF c = q THEN "" ELSE q

\* Character i of line is whitespace outside quotes.
IsSeparator(line, i) == IsSpace(Ch(line, i)) /\ QuoteAfter(line, i - 1) = ""

\* line without its whitespace outside quotes.
RECURSIVE KeptFrom(_, _)
KeptFrom(line, i) ==
    IF i > Len(line) THEN ""
    ELSE (IF IsSeparator(line, i) THEN "" ELSE Ch(line, i)) \o KeptFrom(line, i + 1)

\* The maximal runs of characters that are not separators, as <<first, last>>,
\* from left to right.
RunStarts(line) ==
    {i \in 1..Len(line) : ~IsSeparator(line, i) /\ (i = 1 \/ IsSeparator(line, i - 1))}

RunEnd(line, s) ==
    CHOOSE e \in s..Len(line) :
        /\ \A j \in s..e : ~IsSeparator(line, j)
        /\ e = Len(line) \/ IsSeparator(line, e + 1)

RECURSIVE RunsFrom(_, _)
RunsFrom(line, i) ==
    IF \A s \in RunStarts(line) : s < i THEN <<>>
    ELSE LET s == CHOOSE x \in RunStarts(line) :
                      x >= i /\ \A y \in RunStarts(line) : y >= i => x <= y
             e == RunEnd(line, s)
         IN  <<(<<s, e>>)>> \o RunsFrom(line, e + 1)

(***************************************************************************)
(* C10: the tokens are non-empty and are, in source order, exactly the     *)
(* maximal runs of the line between whitespace outside quotes; so no       *)
(* whitespace outside quotes is in a token, a quoted run with its quote    *)
(* characters lies in one token, an unterminated quote takes the rest of   *)
(* the line into the last token, and the tokens concatenated are the line  *)
(* without its whitespace outside quotes.                                  *)
(***************************************************************************)
C10_Tokens ==
    tok.done =>
        LET line == tok.line
            parts == tok.parts
            runs == RunsFrom(line, 1)
            n == Len(line)
        IN  /\ \A k \in 1..Len(parts) : parts[k] # ""
            /\ Len(parts) = Len(runs)
            /\ \A k \in 1..Len(parts) : parts[k] = SubSeq(line, runs[k][1], runs[k][2])
            /\ \A k \in 1..Len(parts) : \A j \in 1..Len(parts[k]) :
                   IsSpace(Ch(parts[k], j)) => QuoteAfter(line, runs[k][1] + j - 2) # ""
            /\ \A i \in 1..n : \A j \in (i + 1)..n :
                   (/\ QuoteAfter(line, i - 1) = ""
                    /\ IsQuoteChar(Ch(line, i))
                    /\ \A m \in i..(j - 1) : QuoteAfter(line, m) = Ch(line, i)
                    /\ Ch(line, j) = Ch(line, i))
                   => \E k \in 1..Len(parts) : runs[k][1] <= i /\ j <= runs[k][2]
            /\ \A i \in 1..n :
                   (/\ QuoteAfter(line, i - 1) = ""
                    /\ \A m \in i..n : QuoteAfter(line, m) # "")
                   => /\ parts # <<>>
                      /\ parts[Len(parts)] = SubSeq(line, runs[Len(parts)][1], n)
                      /\ runs[Len(parts)][1] <= i
            /\ Join("", parts) = KeptFrom(line, 1)

\* A quoted run holding a space in one token, and a space outside quotes
\* between two tokens.
C10_Witness == tok.done /\ tok.line = "' ' a" /\ tok.parts = <<"' '", "a">>

(***************************************************************************)
(* C3: the secrets list never holds two SecretContext of one name; a bare  *)
(* `SECRET n` for an existing context n leaves the secrets list as it is;  *)
(* and a key/value line in a secret context sets that key in the context   *)
(* named by current_item and changes no other key and no other secret.     *)
(***************************************************************************)
C3_OneContextPerName ==
    \A i, j \in 1..Len(config.secrets) :
        (/\ config.secrets[i].kind = "context"
         /\ config.secrets[j].kind = "context"
         /\ config.secrets[i].name = config.secrets[j].name) => i = j

C3_Reissue ==
    (/\ Parsing
     /\ Len(CurParts) = 2
     /\ CurInstruction = "SECRET"
     /\ HasSecretContext(config.secrets, Unquote(CurParts[2])))
    => /\ config'.secrets = config.secrets
       /\ current_context' = "secret"
       /\ current_item' = Some(Unquote(CurParts[2]))
       /\ pc' = "parse"

C3_KeyValue ==
    (/\ Parsing
     /\ current_context = "secret"
     /\ CurInstruction \in SubInstructions
     /\ Len(CurParts) >= 2)
    => LET k == SecretContextIndex(config.secrets, current_item[1])
           old == config.secrets[k].values
           new == config'.secrets[k].values
       IN  /\ Len(config'.secrets) = Len(config.secrets)
           /\ \A i \in 1..Len(config.secrets) :
                  i # k => config'.secrets[i] = config.secrets[i]
           /\ config'.secrets[k].name = config.secrets[k].name
           /\ config'.secrets[k].kind = "context"
           /\ DictKeys(new) = DictKeys(old) \cup {CurInstruction}
           /\ DictGet(new, CurInstruction) =
                  expand_env_vars(Unquote(Join(" ", Rest(CurParts))))
           /\ \A key \in DictKeys(old) :
                  key # CurInstruction => DictGet(new, key) = DictGet(old, key)
           /\ pc' = "parse"

C3_SecretFindOrCreate ==
    /\ []C3_OneContextPerName
    /\ [][C3_Reissue /\ C3_KeyValue]_vars

\* SECRET s is issued twice; the second block's key joined the first one's.
C3_Witness ==
    /\ pc = "done"
    /\ Handled = <<"SECRET s", "API_KEY k1", "SECRET s", "BASE_URL u">>
    /\ config.secrets =
           <<SecretContext("s", <<[key |-> "API_KEY", val |-> "k1"],
                                  [key |-> "BASE_URL", val |-> "u"]>>)>>

(***************************************************************************)
(* Equality of Configurations as Python compares the dataclasses: lists by *)
(* position, dicts by key whatever the insertion order.                    *)
(***************************************************************************)
SameMapping(a, b) ==
    /\ DictKeys(a) = DictKeys(b)
    /\ \A k \in DictKeys(a) : DictGet(a, k) = DictGet(b, k)

SameServers(a, b) ==
    /\ DictKeys(a) = DictKeys(b)
    /\ \A k \in DictKeys(a) :
           /\ [DictGet(a, k) EXCEPT !.env = <<>>] = [DictGet(b, k) EXCEPT !.env = <<>>]
           /\ SameMapping(DictGet(a, k).env, DictGet(b, k).env)

SameSecrets(a, b) ==
    /\ Len(a) = Len(b)
    /\ \A i \in 1..Len(a) :
           /\ [a[i] EXCEPT !.values = <<>>] = [b[i] EXCEPT !.values = <<>>]
           /\ SameMapping(a[i].values, b[i].values)

\* The entries the serializer does not write from the list itself: FROM and CMD
\* are written from base_image and cmd, and left out when cmd has its default.
NotFromCmd(dis) == SelectSeq(dis, LAMBDA di : di.instruction \notin {"FROM", "CMD"})

SameConfiguration(a, b) ==
    /\ a.base_image = b.base_image
    /\ a.default_model = b.default_model
    /\ a.framework = b.framework
    /\ SameServers(a.servers, b.servers)
    /\ SameMapping(a.agents, b.agents)
    /\ SameMapping(a.routers, b.routers)
    /\ SameMapping(a.chains, b.chains)
    /\ SameMapping(a.orchestrators, b.orchestrators)
    /\ SameSecrets(a.secrets, b.secrets)
    /\ a.expose_ports = b.expose_ports
    /\ a.cmd = b.cmd
    /\ NotFromCmd(a.dockerfile_instructions) = NotFromCmd(b.dockerfile_instructions)

\* C1: once a text has parsed and its Configuration has been serialized with
\* config_to_dockerfile_content and parsed again, the second parse raised no
\* error and its Configuration equals the first one: base image, default
\* model, framework, every entity mapping, secrets, expose_ports, cmd and the
\* dockerfile_instructions list (its FROM and CMD entries, which the
\* serializer writes from base_image and cmd, left aside).
C1_RoundTrip ==
    pc = "reparsed" => ~Raised(reparsed) /\ SameConfiguration(config, reparsed.config)

\* The fields of an agent the conversion has to keep.
AgentContent(agent) ==
    [name |-> agent.name, instruction |-> agent.instruction,
     servers |-> agent.servers, model |-> agent.model]

\* C2: once a Dockerfile-syntax text has parsed and has been converted to YAML
\* and back to Dockerfile syntax and parsed again, no step raised, the agents
\* of the last parse have the names of the agents of the first parse, and
\* each has the same name, instruction text, server list and model.
C2_AgentsKept ==
    pc = "reparsed" =>
        /\ ~Raised(reparsed)
        /\ DictKeys(reparsed.config.agents) = DictKeys(config.agents)
        /\ \A n \in DictKeys(config.agents) :
               AgentContent(DictGet(reparsed.config.agents, n))
                   = AgentContent(DictGet(config.agents, n))

(***************************************************************************)
(* Sub-instructions and the open context.                                  *)
(***************************************************************************)
\* The next ParseLine step handles a recognized sub-instruction.
SubInstructionNext == Parsing /\ CurInstruction \in SubInstructions

\* current_item names a SecretContext of the secrets list.
NamesSecretContext ==
    current_item # None /\ HasSecretContext(config.secrets, current_item[1])

\* The step stores the line as a key/value of the SecretContext current_item
\* names, and changes nothing else of the Configuration.
StoredInSecretContext ==
    LET k == SecretContextIndex(config.secrets, current_item[1])
    IN  /\ pc' = "parse"
        /\ current_item' = current_item
        /\ config' = [config EXCEPT !.secrets[k].values =
                          DictSet(@, CurInstruction,
                                  expand_env_vars(Unquote(Join(" ", Rest(CurParts)))))]

\* The step raises and leaves the Configuration and current_item alone.
RaisesKeepingConfig == pc' = "error" /\ config' = config /\ current_item' = current_item

\* Without a context and without a SecretContext to fall back on, the line
\* raises and changes nothing.
C4_NoContextRaises ==
    (SubInstructionNext /\ current_context = NoContext /\ ~NamesSecretContext)
    => RaisesKeepingConfig /\ current_context' = current_context

\* The handler of each context kind.
ContextHandler(p, instruction, parts) ==
    CASE p.current_context = "server" -> _handle_server_sub_instruction(p, instruction, parts)
      [] p.current_context = "agent" -> _handle_agent_sub_instruction(p, instruction, parts)
      [] p.current_context = "router" -> _handle_router_sub_instruction(p, instruction, parts)
      [] p.current_context = "chain" -> _handle_chain_sub_instruction(p, instruction, parts)
      [] p.current_context = "orchestrator" ->
             _handle_orchestrator_sub_instruction(p, instruction, parts)
      [] p.current_context = "secret" -> _handle_secret_sub_instruction(p, instruction, parts)

\* The field of the Configuration that holds the entities of a context kind.
ContextField ==
    [c \in {"server", "agent", "router", "chain", "orchestrator", "secret"} |->
        CASE c = "server" -> "servers" [] c = "agent" -> "agents"
          [] c = "router" -> "routers" [] c = "chain" -> "chains"
          [] c = "orchestrator" -> "orchestrators" [] c = "secret" -> "secrets"]

\* Of the Configuration, the step changes at most the entity current_item
\* names among the entities of the open context kind.
OnlyCurrentEntityChanges ==
    LET f == ContextField[current_context]
    IN  /\ \A g \in DOMAIN config \ {f} : config'[g] = config[g]
        /\ Len(config'[f]) = Len(config[f])
        /\ \A i \in 1..Len(config[f]) :
               config'[f][i] # config[f][i] =>
                   IF f = "secrets"
                   THEN /\ NamesSecretContext
                        /\ i = SecretContextIndex(config.secrets, current_item[1])
                   ELSE config[f][i].key = current_item[1]

\* With an open context the line goes to the handler of that context kind,
\* which acts on the entity current_item names; the context stays open.
C4_OpenContextDispatch ==
    (SubInstructionNext /\ current_context # NoContext)
    => LET q == ContextHandler(Parser(config, current_context, current_item),
                               CurInstruction, CurParts)
       IN  /\ config' = q.config
           /\ (pc' = "error") = Raised(q)
           /\ current_context' = current_context
           /\ current_item' = current_item
           /\ OnlyCurrentEntityChanges

\* The exception as the claim has it: whenever current_item names a
\* SecretContext, the line is stored in it and the context becomes secret.
C4_DanglingStored ==
    (SubInstructionNext /\ current_context = NoContext /\ NamesSecretContext)
    => StoredInSecretContext /\ current_context' = "secret"

\* The exception as the code has it: the context becomes secret and the line
\* is handled as a line of that secret block, which stores it when it has a
\* value and the name is not empty, and raises otherwise.
C4_DanglingHandledAsSecret ==
    (SubInstructionNext /\ current_context = NoContext /\ NamesSecretContext)
    => IF current_item[1] = ""
       THEN RaisesKeepingConfig /\ current_context' = current_context
       ELSE /\ current_context' = "secret"
            /\ IF Len(CurParts) >= 2 THEN StoredInSecretContext ELSE RaisesKeepingConfig

\* C4 as stated: a recognized sub-instruction processed without a context
\* raises and changes nothing, except that it is stored as a key/value of the
\* SecretContext current_item names (current_context becoming secret) whenever
\* there is one; with an open context it is dispatched to the handler of the
\* context kind and applied to the entity current_item names.
C4_AsStated ==
    [][C4_NoContextRaises /\ C4_DanglingStored /\ C4_OpenContextDispatch]_vars

\* C4, amended: as above, but in the exception the line is handled as a line
\* of the secret block current_item names: current_context becomes secret, and
\* the line is stored only if it carries a value; a line without a value
\* raises after current_context became secret, and an empty current_item is
\* no exception at all (the line raises and changes nothing).
C4_SubInstructionContext ==
    [][C4_NoContextRaises /\ C4_DanglingHandledAsSecret /\ C4_OpenContextDispatch]_vars

\* A key/value line after the secret block was closed by FROM went into the
\* dangling context, which is open again.
C4_Witness ==
    /\ pc = "done"
    /\ Handled = <<"SECRET e", "FROM x", "DEFAULT true">>
    /\ current_context = "secret"
    /\ config.secrets = <<SecretContext("e", <<[key |-> "DEFAULT", val |-> "true"]>>)>>

(***************************************************************************)
(* Re-declarations.                                                        *)
(***************************************************************************)
\* The keywords that declare an entity, with the field that holds the
\* entities of that kind.
DeclaredIn ==
    [k \in {"SERVER", "MCP_SERVER", "AGENT", "ROUTER", "CHAIN", "ORCHESTRATOR"} |->
        CASE k \in {"SERVER", "MCP_SERVER"} -> "servers" [] k = "AGENT" -> "agents"
          [] k = "ROUTER" -> "routers" [] k = "CHAIN" -> "chains"
          [] k = "ORCHESTRATOR" -> "orchestrators"]

\* The entity of that kind with default fields.
Fresh(field, name) ==
    CASE field = "servers" -> MCPServer(name) [] field = "agents" -> Agent(name)
      [] field = "routers" -> Router(name) [] field = "chains" -> Chain(name)
      [] field = "orchestrators" -> Orchestrator(name)

\* No mapping holds two entries for one name.
C5_OneEntryPerName ==
    \A f \in {"servers", "agents", "routers", "chains", "orchestrators"} :
        \A i, j \in 1..Len(config[f]) : config[f][i].key = config[f][j].key => i = j

\* Declaring a name that is declared already puts a fresh entity in its place
\* and leaves every other entry alone.
C5_RedeclareReplaces ==
    (/\ Parsing
     /\ CurInstruction \in DOMAIN DeclaredIn
     /\ Len(CurParts) >= 2
     /\ DictHas(config[DeclaredIn[CurInstruction]], Unquote(CurParts[2])))
    => LET f == DeclaredIn[CurInstruction]
           name == Unquote(CurParts[2])
       IN  /\ pc' = "parse"
           /\ DictGet(config'[f], name) = Fresh(f, name)
           /\ Len(config'[f]) = Len(config[f])
           /\ \A i \in 1..Len(config[f]) :
                  /\ config'[f][i].key = config[f][i].key
                  /\ config[f][i].key # name => config'[f][i] = config[f][i]
           /\ \A g \in DOMAIN config \ {f} : config'[g] = config[g]

\* A bare SECRET on the name of an existing SecretContext changes nothing of
\* the Configuration.
C5_SecretReissueKeeps ==
    (/\ Parsing
     /\ CurInstruction = "SECRET"
     /\ Len(CurParts) = 2
     /\ HasSecretContext(config.secrets, Unquote(CurParts[2])))
    => pc' = "parse" /\ config' = config

\* C5: re-issuing SERVER/MCP_SERVER, AGENT, ROUTER, CHAIN or ORCHESTRATOR with
\* a name already declared replaces the entry by a fresh entity with default
\* fields, the mapping keeping exactly one entry for the name, whereas
\* re-issuing a bare SECRET keeps the existing context and its keys.
C5_RedeclarationAsymmetry ==
    /\ []C5_OneEntryPerName
    /\ [][C5_RedeclareReplaces /\ C5_SecretReissueKeeps]_vars

\* The instruction given to agent e is gone after AGENT e was issued again.
C5_Witness ==
    /\ pc = "done"
    /\ Handled = <<"AGENT e", "INSTRUCTION hi", "AGENT e">>
    /\ config.agents = <<[key |-> "e", val |-> Agent("e")]>>

(***************************************************************************)
(* The Configuration during a parse.                                       *)
(***************************************************************************)
\* old is the beginning of new: new is old with entries appended at the end.
AppendedTo(old, new) == Len(new) >= Len(old) /\ SubSeq(new, 1, Len(old)) = old

\* No mapping loses a key in a step.
C6_KeysKept ==
    \A f \in {"servers", "agents", "routers", "chains", "orchestrators"} :
        DictKeys(config[f]) \subseteq DictKeys(config'[f])

\* expose_ports and dockerfile_instructions change by appending only.
C6_ListsAppended ==
    /\ AppendedTo(config.expose_ports, config'.expose_ports)
    /\ AppendedTo(config.dockerfile_instructions, config'.dockerfile_instructions)

\* The secrets list keeps its entries in place: an entry stays as it is, or
\* it is a SecretContext that keeps its name and gains or overwrites keys.
C6_SecretsKept ==
    /\ Len(config'.secrets) >= Len(config.secrets)
    /\ \A i \in 1..Len(config.secrets) :
           \/ config'.secrets[i] = config.secrets[i]
           \/ /\ config.secrets[i].kind = "context"
              /\ config'.secrets[i].kind = "context"
              /\ config'.secrets[i].name = config.secrets[i].name
              /\ DictKeys(config.secrets[i].values)
                     \subseteq DictKeys(config'.secrets[i].values)

\* The keywords whose lines are not kept in dockerfile_instructions: those
\* that set the model or the framework, declare an entity or a secret, or
\* are sub-instructions.
NotKept ==
    {"MODEL", "FRAMEWORK", "SERVER", "MCP_SERVER", "AGENT", "ROUTER", "CHAIN",
     "ORCHESTRATOR", "SECRET", "ENV"} \cup SubInstructions

KeywordOf(line) == Upper(SplitRespectingQuotes(line)[1])

\* dockerfile_instructions holds one entry for each line handled so far that
\* is a FROM, EXPOSE, CMD, generic or unrecognized instruction, in the order
\* of the lines.
C6_SourceOrder ==
    [i \in 1..Len(config.dockerfile_instructions) |->
        config.dockerfile_instructions[i].instruction]
    = SelectSeq([k \in 1..Len(Handled) |-> KeywordOf(Handled[k])],
                LAMBDA kw : kw \notin NotKept)

\* The entry such a line appends: its keyword with its arguments (the
\* command list for CMD).
C6_EntryAppended ==
    (Parsing /\ CurInstruction \notin NotKept /\ pc' = "parse")
    => config'.dockerfile_instructions =
           Append(config.dockerfile_instructions,
                  DockerfileInstruction(CurInstruction,
                                        IF CurInstruction = "CMD" THEN config'.cmd
                                        ELSE Rest(CurParts)))

\* C6 as stated: across every processed line no mapping loses a key, and
\* secrets, expose_ports and dockerfile_instructions change only by appending
\* at the end; dockerfile_instructions lists the FROM, EXPOSE, CMD, generic
\* and unrecognized instructions in the order of their lines.
C6_AsStated ==
    /\ [][/\ C6_KeysKept
          /\ C6_ListsAppended
          /\ AppendedTo(config.secrets, config'.secrets)
          /\ C6_EntryAppended]_vars
    /\ []C6_SourceOrder

\* C6, amended: as above, but the secrets list changes by appending at the
\* end or by a key/value line setting a key of a SecretContext it holds
\* already, which stays at its place; no entry is removed or moved.
C6_ConfigurationGrows ==
    /\ [][C6_KeysKept /\ C6_ListsAppended /\ C6_SecretsKept /\ C6_EntryAppended]_vars
    /\ []C6_SourceOrder

\* A key/value line changed the secret context in place, and the unrecognized
\* line after it was appended to the instructions.
C6_Witness ==
    /\ pc = "done"
    /\ Handled = <<"SECRET s", "API_KEY k", "BOGUS z">>
    /\ config.secrets = <<SecretContext("s", <<[key |-> "API_KEY", val |-> "k"]>>)>>
    /\ config.dockerfile_instructions = <<DockerfileInstruction("BOGUS", <<"z">>)>>

(***************************************************************************)
(* Exposed ports.                                                          *)
(***************************************************************************)
\* The ports given so far: by the EXPOSE lines handled, or by the items of
\* the `expose` list the YAML parser went through (all of them once it has
\* returned, those before the item it rejected otherwise).
GivenPorts ==
    IF lines # <<>>
    THEN LET exposes == SelectSeq(Handled, LAMBDA l : KeywordOf(l) = "EXPOSE")
         IN  [k \in 1..Len(exposes) |-> PyInt(SplitRespectingQuotes(exposes[k])[2]).val]
    ELSE IF pc \in {"done", "error"}
    THEN LET items == YGet(yaml_data, "expose").items
             bad == {k \in 1..Len(items) : ~YIsInt(items[k])}
             n == IF bad = {} THEN Len(items)
                  ELSE (CHOOSE k \in bad : \A j \in bad : k <= j) - 1
         IN  [k \in 1..n |-> YIntVal(items[k])]
    ELSE <<>>

\* The place of the first occurrence of x in seq.
FirstIndex(seq, x) ==
    CHOOSE i \in 1..Len(seq) : seq[i] = x /\ \A j \in 1..(i - 1) : seq[j] # x

\* C7: after any sequence of EXPOSE instructions, or any `expose` list read by
\* the YAML parser, expose_ports contains no port twice and lists the distinct
\* ports given, in the order of their first occurrence.
C7_ExposePorts ==
    LET ports == config.expose_ports
    IN  /\ \A i, j \in 1..Len(ports) : ports[i] = ports[j] => i = j
        /\ {ports[i] : i \in 1..Len(ports)} = {GivenPorts[k] : k \in 1..Len(GivenPorts)}
        /\ \A i, j \in 1..Len(ports) :
               i < j => FirstIndex(GivenPorts, ports[i]) < FirstIndex(GivenPorts, ports[j])

\* Port 80 was exposed twice, the second time written 080.
C7_Witness ==
    /\ pc = "done"
    /\ Handled = <<"EXPOSE 80", "EXPOSE 81", "EXPOSE 080">>
    /\ config.expose_ports = <<80, 81>>

(***************************************************************************)
(* Continued lines.                                                        *)
(***************************************************************************)
\* C8: each logical line the preprocessor emitted carries the number of the
\* physical line that began it, and so does the error raised for a logical
\* line.
C8_FirstLineNumber ==
    /\ \A k \in 1..Len(processed_lines) : processed_lines[k].line_num = began[k]
    /\ pc = "error" => error.line_num = began[idx]

\* Physical line j ends in a backslash.
Continued(j) == EndsWith(RStrip(lines[j]), "\\")

\* Physical line j without its trailing whitespace and backslash.
Fragment(j) ==
    LET l == RStrip(lines[j])
    IN  IF EndsWith(l, "\\") THEN RStrip(SubSeq(l, 1, Len(l) - 1)) ELSE l

\* The last physical line of the logical line that begins at line b: the
\* first one from b on that is not continued, or the last line of the text.
LastFragment(b) ==
    IF \E j \in b..Len(lines) : ~Continued(j)
    THEN CHOOSE j \in b..Len(lines) :
             ~Continued(j) /\ \A i \in b..(j - 1) : Continued(i)
    ELSE Len(lines)

\* The fragments of logical line k, and the one-line instruction they give
\* when joined with one space.
Fragments(k) ==
    [j \in 1..(LastFragment(began[k]) - began[k] + 1) |-> Fragment(began[k] + j - 1)]

Joined(k) == Strip(Join(" ", Fragments(k)))

\* s.split(): the words of s, separated by whitespace.
RECURSIVE WordsFrom(_, _, _)
WordsFrom(s, i, word) ==
    IF i > Len(s) THEN (IF word = "" THEN <<>> ELSE <<word>>)
    ELSE IF IsSpace(Ch(s, i))
    THEN (IF word = "" THEN <<>> ELSE <<word>>) \o WordsFrom(s, i + 1, "")
    ELSE WordsFrom(s, i + 1, word \o Ch(s, i))

\* The words of all fragments of logical line k after the keyword, separated
\* by single spaces.
FragmentWords(k) ==
    Join(" ", Tail(Concat([j \in 1..Len(Fragments(k)) |-> WordsFrom(Fragments(k)[j], 1, "")])))

\* Every logical line is its fragments joined with one space.
C9_Flattened == \A k \in 1..Len(processed_lines) : processed_lines[k].line = Joined(k)

\* A logical line is handled as the one-line instruction Joined gives.
C9_HandledAsJoined ==
    Parsing =>
        LET q == _parse_line(Parser(config, current_context, current_item), Joined(idx))
        IN  /\ config' = q.config
            /\ current_context' = q.current_context
            /\ current_item' = q.current_item
            /\ (pc' = "error") = Raised(q)

\* A RUN line gives one DockerfileInstruction, with the tokens of the joined
\* line after the keyword; an INSTRUCTION line of an agent gives one
\* assignment, of those tokens joined with single spaces and unquoted.
C9_OneResult ==
    /\ (Parsing /\ CurInstruction = "RUN" /\ Len(CurParts) >= 2)
       => config' = [config EXCEPT !.dockerfile_instructions =
                         Append(@, DockerfileInstruction("RUN",
                                       Rest(SplitRespectingQuotes(Joined(idx)))))]
    /\ (Parsing /\ CurInstruction = "INSTRUCTION" /\ Len(CurParts) >= 2
        /\ current_context = "agent")
       => config' = [config EXCEPT !.agents =
                         DictSet(@, current_item[1],
                                 [DictGet(@, current_item[1]) EXCEPT !.instruction =
                                      Unquote(Join(" ",
                                          Rest(SplitRespectingQuotes(Joined(idx)))))])]

\* The recorded RUN args joined by single spaces, and the stored INSTRUCTION
\* text (with or without its enclosing quotes), are the words of the fragments
\* separated by single spaces.
WordsRecorded ==
    /\ (Parsing /\ CurInstruction = "RUN" /\ Len(CurParts) >= 2)
       => LET dis == config'.dockerfile_instructions
          IN  Join(" ", dis[Len(dis)].args) = FragmentWords(idx)
    /\ (Parsing /\ CurInstruction = "INSTRUCTION" /\ Len(CurParts) >= 2
        /\ current_context = "agent")
       => DictGet(config'.agents, current_item[1]).instruction
              \in {FragmentWords(idx), Unquote(FragmentWords(idx))}

\* No whitespace of logical line k lies inside quotes.
NoQuotedSpace(k) ==
    \A i \in 1..Len(processed_lines[k].line) :
        IsSpace(Ch(processed_lines[k].line, i)) => IsSeparator(processed_lines[k].line, i)

\* C9 as stated: a RUN or INSTRUCTION spread over several physical lines is
\* handled like the one-line instruction obtained by joining its fragments
\* with one space; the recorded RUN args joined by single spaces and the
\* stored INSTRUCTION text equal the words of all fragments separated by
\* single spaces; exactly one DockerfileInstruction or one assignment results.
C9_AsStated ==
    /\ []C9_Flattened
    /\ [][C9_HandledAsJoined /\ C9_OneResult /\ WordsRecorded]_vars

\* C9, amended: as above, but what is recorded are the tokens of the joined
\* line (for INSTRUCTION joined with single spaces and unquoted), in which
\* whitespace inside quotes stays as written, the indentation of a fragment
\* that continues a quoted text included; they are the words of the fragments
\* separated by single spaces when no whitespace lies inside quotes.
C9_ContinuationJoined ==
    /\ []C9_Flattened
    /\ [][/\ C9_HandledAsJoined
          /\ C9_OneResult
          /\ (Parsing /\ NoQuotedSpace(idx)) => WordsRecorded]_vars

\* A quoted instruction text over two fragments keeps the space that joined
\* them and the indentation of the second fragment.
C9_Witness ==
    /\ pc = "done"
    /\ lines = <<"AGENT a", "INSTRUCTION \"p \\", "  q\"">>
    /\ Handled = <<"AGENT a", "INSTRUCTION \"p   q\"">>
    /\ DictGet(config.agents, "a").instruction = "p   q"

(***************************************************************************)
(* A parse completes or raises.                                            *)
(***************************************************************************)
\* The state is one of the YAML parser's: no line of Dockerfile syntax was read.
YamlCall == lines = <<>>

\* The parser after the first k logical lines, handled in order from the
\* state a new parser has.
AfterLines(k) ==
    ParseFrom(Parser(AgentfileConfig, NoContext, None), SubSeq(processed_lines, 1, k), 1)

\* The Dockerfile parser raised: every logical line before line idx was
\* handled, the handling of line idx failed, no later line was applied to
\* the Configuration, and the error carries the
\* number of the physical line that began line idx, and its text.
RaisedAtFirstFailure ==
    /\ idx <= Len(processed_lines)
    /\ ~Raised(AfterLines(idx - 1))
    /\ Raised(AfterLines(idx))
    /\ error.line_num = began[idx]
    /\ error.line = processed_lines[idx].line
    /\ error.msg = AfterLines(idx).error
    /\ config = AfterLines(idx).config

\* The Dockerfile parser returned: every logical line was handled, none
\* failed, and the Configuration is what they built.
ReturnedComplete ==
    /\ idx = Len(processed_lines) + 1
    /\ ~Raised(AfterLines(Len(processed_lines)))
    /\ config = AfterLines(Len(processed_lines)).config
    /\ error = NoError

\* The YAML parser raises exactly when a section of the document is
\* malformed, and returns the Configuration of all sections otherwise.
YamlCompleteOrRaised ==
    /\ pc = "error" <=> Raised(yaml_parse_content(yaml_data))
    /\ pc = "done" => config = yaml_parse_content(yaml_data).config

\* C11: a parse either completes or raises.  The Dockerfile parser raises at
\* the first logical line whose handling fails, with that line's number and
\* text, processes no later line and returns no Configuration; the YAML
\* parser raises on a structural violation in any section and returns no
\* Configuration, whatever earlier sections were applied.
C11_CompleteOrRaise ==
    /\ (pc = "error" /\ ~YamlCall) => RaisedAtFirstFailure
    /\ (pc = "done" /\ ~YamlCall) => ReturnedComplete
    /\ (pc \in {"done", "error"} /\ YamlCall) => YamlCompleteOrRaised

(***************************************************************************)
(* Repeated parses on one parser object.                                   *)
(***************************************************************************)
\* The text of the call: the lines read, as content.split('\n') gave them.
Content == Join("\n", lines)

\* C12: every parse starts from an empty Configuration and the parser state
\* (None, None), and the Configuration a call returns, or the fact that it
\* raises, depends only on the text of that call, whatever earlier calls were
\* made on the same parser object, Dockerfile or YAML.
C12_FreshParse ==
    /\ (pc = "read" /\ lines = <<>>)
       => /\ config = AgentfileConfig
          /\ current_context = NoContext
          /\ current_item = None
    /\ (pc \in {"done", "error"} /\ ~YamlCall)
       => /\ (pc = "error") = Raised(parse_content(Content))
          /\ pc = "done" => config = parse_content(Content).config
    /\ (pc \in {"done", "error"} /\ YamlCall)
       => /\ (pc = "error") = Raised(yaml_parse_content(yaml_data))
          /\ pc = "done" => config = yaml_parse_content(yaml_data).config

(***************************************************************************)
(* The validator.                                                          *)
(***************************************************************************)
\* The k-th server name of the i-th agent is not a key of servers.
Unresolved(i, k) == ~DictHas(config.servers, config.agents[i].val.servers[k])

\* The places of the server names of the agents, in iteration order.
References ==
    {<<i, k>> \in (1..Len(config.agents)) \X (1..4) :
        k <= Len(config.agents[i].val.servers)}

Earlier(a, b) == a[1] < b[1] \/ (a[1] = b[1] /\ a[2] < b[2])

\* C13: after a parse that returned, the validator returns valid exactly
\* when the base image is not empty, there is an agent, and every server name
\* of every agent is a key of servers; otherwise it reports the first
\* violation only: the base image, then the agent count, then the first
\* unresolved reference in the order of the agents and of their server lists.
C13_Validator ==
    (pc = "validated" /\ error = NoError) =>
        LET v == validation[1]
        IN  /\ v.valid <=> /\ config.base_image # ""
                           /\ config.agents # <<>>
                           /\ \A r \in References : ~Unresolved(r[1], r[2])
            /\ v.printed =
                 IF config.base_image = "" THEN "Validation failed: Missing base image"
                 ELSE IF config.agents = <<>> THEN "Validation failed: No agents defined"
                 ELSE IF \E r \in References : Unresolved(r[1], r[2])
                 THEN LET r == CHOOSE r \in References :
                                   /\ Unresolved(r[1], r[2])
                                   /\ \A q \in References :
                                          Earlier(q, r) => ~Unresolved(q[1], q[2])
                      IN  "Validation failed: Agent '" \o config.agents[r[1]].val.name
                              \o "' references undefined server '"
                              \o config.agents[r[1]].val.servers[r[2]] \o "'"
                 ELSE "Agentfile is valid"

\* Two agents with an unresolved reference each: the first agent's is reported.
C13_Witness ==
    /\ pc = "validated"
    /\ lines = <<"AGENT a", "SERVERS t", "AGENT b", "SERVERS s t">>
    /\ validation = Some([valid |-> FALSE,
                          printed |-> "Validation failed: Agent 'a' references undefined server 't'"])

(***************************************************************************)
(* A document with an `agent` block and an `agents` list.                  *)
(***************************************************************************)
\* The document has both, and the YAML parser returned.
BothAgentSections ==
    /\ pc \in {"done", "validated"} /\ YamlCall
    /\ YHas(yaml_data, "agent") /\ YHas(yaml_data, "agents")

\* The block and the N entries of the list, the block first.
AgentEntries == <<YGet(yaml_data, "agent")>> \o YGet(yaml_data, "agents").items

\* The entries that are not empty: the others are skipped.
GivenAgents == SelectSeq(AgentEntries, YTruthy)

GivenName(k) == YGet(GivenAgents[k], "name").s

\* The agents mapping holds one agent per name given, placed where the name
\* was first given and with the instruction of the last entry of that name.
AgentsByName ==
    /\ {config.agents[i].key : i \in 1..Len(config.agents)}
           = {GivenName(k) : k \in 1..Len(GivenAgents)}
    /\ \A i, j \in 1..Len(config.agents) : i # j => config.agents[i].key # config.agents[j].key
    /\ \A i, j \in 1..Len(config.agents) :
           i < j => \E k \in 1..Len(GivenAgents) :
                        /\ GivenName(k) = config.agents[i].key
                        /\ \A l \in 1..k : GivenName(l) # config.agents[j].key
    /\ \A k \in 1..Len(GivenAgents) :
           (\A l \in (k + 1)..Len(GivenAgents) : GivenName(l) # GivenName(k))
           => /\ DictGet(config.agents, GivenName(k)).name = GivenName(k)
              /\ DictGet(config.agents, GivenName(k)).instruction
                     = YGet(GivenAgents[k], "instruction").s

\* No entry is empty and no name is given twice.
DistinctAgents ==
    /\ Len(GivenAgents) = Len(AgentEntries)
    /\ \A k, l \in 1..Len(GivenAgents) : k # l => GivenName(k) # GivenName(l)

\* The mapping holds the agent of the block, first, and the N of the list.
OnePlusN ==
    /\ Len(config.agents) = 1 + Len(YGet(yaml_data, "agents").items)
    /\ \A k \in 1..Len(AgentEntries) :
           /\ config.agents[k].key = YGet(AgentEntries[k], "name").s
           /\ config.agents[k].val.instruction = YGet(AgentEntries[k], "instruction").s

EntrypointLines ==
    {k \in 1..Len(processed_lines) :
        Upper(SplitRespectingQuotes(processed_lines[k].line)[1]) = "ENTRYPOINT"}

\* The argument vector an ENTRYPOINT line declares, read as a CMD line is:
\* the elements of a bracketed array, or the words, unquoted.
DeclaredEntrypoint(k) ==
    _handle_cmd(Parser(AgentfileConfig, NoContext, None),
                SplitRespectingQuotes(processed_lines[k].line)).config.cmd

\* The command the document gives, the default one if it gives none.
DeclaredCommand ==
    IF YHas(yaml_data, "command") THEN YStrList(YGet(yaml_data, "command"))
    ELSE AgentfileConfig.cmd

\* C15: the Configuration carries an entrypoint vector, empty by default.
\* ENTRYPOINT ["a", "b"] and ENTRYPOINT a b set it to [a, b] and record an
\* ENTRYPOINT DockerfileInstruction with those unquoted args; ENTRYPOINT
\* alone is the error "ENTRYPOINT requires at least one argument".  A YAML
\* `entrypoint` list, empty or not, sets it and leaves cmd alone; a value
\* that is not a list is the error "Entrypoint must be a list".
C15_Entrypoint ==
    /\ (pc = "done" /\ ~YamlCall)
       => /\ \A k \in EntrypointLines :
                 /\ config.dockerfile_instructions[k].instruction = "ENTRYPOINT"
                 /\ config.dockerfile_instructions[k].args = DeclaredEntrypoint(k)
          /\ "entrypoint" \in DOMAIN config
          /\ config.entrypoint =
                 IF EntrypointLines = {} THEN <<>>
                 ELSE DeclaredEntrypoint(CHOOSE k \in EntrypointLines :
                                             \A l \in EntrypointLines : l <= k)
    /\ (pc = "error" /\ ~YamlCall /\ error.line = "ENTRYPOINT")
       => error.msg = "ENTRYPOINT requires at least one argument"
    /\ (pc \in {"done", "error"} /\ YamlCall)
       => IF YIsList(YGet(yaml_data, "entrypoint"))
          THEN /\ pc = "done"
               /\ "entrypoint" \in DOMAIN config
               /\ config.entrypoint = YStrList(YGet(yaml_data, "entrypoint"))
               /\ config.cmd = DeclaredCommand
          ELSE /\ pc = "error"
               /\ error.msg = "Entrypoint must be a list"

(***************************************************************************)
(* apiVersion and kind.                                                    *)
(***************************************************************************)
\* The document has the key with the supported value.
HasSupported(key, value) == YHas(yaml_data, key) /\ YGet(yaml_data, key) = YStr(value)

\* C16: the YAML parser requires apiVersion and kind: a document that is not
\* empty and whose apiVersion is missing or not "v1", or whose kind is
\* missing or not "Agent", raises, before any section is applied to the
\* Configuration.
C16_VersionAndKindRequired ==
    (/\ pc \in {"done", "error"} /\ YamlCall
     /\ YTruthy(yaml_data)
     /\ ~(HasSupported("apiVersion", "v1") /\ HasSupported("kind", "Agent")))
    => /\ pc = "error"
       /\ error.msg \in {"Unsupported API version", "Unsupported kind"}
       /\ config = AgentfileConfig

(***************************************************************************)
(* The range of the exposed ports.                                         *)
(***************************************************************************)
\* C17: in every Configuration either parser returns, every element of
\* expose_ports is an integer from 1 to 65535.
C17_PortRange ==
    pc = "done" => \A i \in 1..Len(config.expose_ports) :
                       config.expose_ports[i] \in 1..65535

(***************************************************************************)
(* Secret blocks of a YAML document.                                       *)
(***************************************************************************)
\* The entries of the `secrets` list that carry a `values` map, in order.
IsSecretBlock(item) == YIsDict(item) /\ ~YHas(item, "value") /\ YHas(item, "values")

GivenBlocks == SelectSeq(YGet(yaml_data, "secrets").items, IsSecretBlock)

\* The value the blocks of that name give the key: the last one given.
LastGiven(name, key) ==
    LET given == {k \in 1..Len(GivenBlocks) :
                     /\ YGet(GivenBlocks[k], "name").s = name
                     /\ YHas(YGet(GivenBlocks[k], "values"), key)}
        last == CHOOSE k \in given : \A l \in given : l <= k
    IN  IF given = {} THEN None
        ELSE Some(expand_env_vars(YGet(YGet(GivenBlocks[last], "values"), key).s))

\* C18: in every Configuration the YAML parser returns, secret blocks are
\* merged by name: no two SecretContext elements of secrets share a name, and
\* the SecretContext of a name has the keys of all the blocks of that name,
\* each with the value the last of them gives it.
C18_YamlSecretsMerged ==
    (pc = "done" /\ YamlCall) =>
        /\ \A i, j \in 1..Len(config.secrets) :
               (/\ i # j
                /\ config.secrets[i].kind = "context"
                /\ config.secrets[j].kind = "context")
               => config.secrets[i].name # config.secrets[j].name
        /\ \A k \in 1..Len(GivenBlocks) :
               LET name == YGet(GivenBlocks[k], "name").s
               IN  /\ HasSecretContext(config.secrets, name)
                   /\ \A key \in {"A", "B"} :
                          LET values ==
                                  config.secrets[SecretContextIndex(config.secrets, name)].values
                          IN  IF LastGiven(name, key) = None THEN ~DictHas(values, key)
                              ELSE /\ DictHas(values, key)
                                   /\ DictGet(values, key) = LastGiven(name, key)[1]

(***************************************************************************)
(* expand_env_vars.                                                        *)
(***************************************************************************)
\* The value of the one line `SECRET n value` parsed, and what the parse
\* stored for it.
GivenValue == SubSeq(lines[1], Len("SECRET n ") + 1, Len(lines[1]))

StoredValue == config.secrets[1].value

\* s[a..b] is a name: a letter or underscore, then letters, digits, underscores.
IsName(s, a, b) ==
    /\ a <= b
    /\ IsNameStart(Ch(s, a))
    /\ \A k \in a..b : IsNameChar(Ch(s, k))

\* s[i..j] is a reference ${NAME}, or a reference $NAME that no further
\* character of a name follows.
IsBraced(s, i, j) ==
    /\ Ch(s, i) = "$" /\ i + 1 <= Len(s) /\ Ch(s, i + 1) = "{"
    /\ j <= Len(s) /\ Ch(s, j) = "}"
    /\ IsName(s, i + 2, j - 1)

IsBare(s, i, j) ==
    /\ Ch(s, i) = "$" /\ j <= Len(s)
    /\ IsName(s, i + 1, j)
    /\ (j = Len(s) \/ ~IsNameChar(Ch(s, j + 1)))

\* The references of s, each as <<first, last, NAME>>.
ReferencesOf(s) ==
    {<<i, j, SubSeq(s, i + 2, j - 1)>> : <<i, j>> \in
         {r \in (1..Len(s)) \X (1..Len(s)) : IsBraced(s, r[1], r[2])}}
    \cup
    {<<i, j, SubSeq(s, i + 1, j)>> : <<i, j>> \in
         {r \in (1..Len(s)) \X (1..Len(s)) : IsBare(s, r[1], r[2])}}

\* s with every reference whose NAME is set replaced by the value of NAME,
\* and everything else as written.
Expanded(s) ==
    LET refs == ReferencesOf(s)
        At(i) ==
            IF \E r \in refs : r[1] < i /\ i <= r[2] /\ r[3] \in DOMAIN Environ THEN ""
            ELSE IF \E r \in refs : r[1] = i /\ r[3] \in DOMAIN Environ
            THEN Environ[(CHOOSE r \in refs : r[1] = i)[3]]
            ELSE Ch(s, i)
    IN  Join("", [i \in 1..Len(s) |-> At(i)])

\* C19: expand_env_vars replaces every ${NAME} or $NAME whose NAME is set by
\* its value and leaves every other reference as written, in one pass that
\* does not expand the text it put in; it never raises, and when no
\* referenced name is set the result is the input.
C19_ExpandEnvVars ==
    /\ pc # "error"
    /\ pc = "done"
       => /\ StoredValue = Expanded(GivenValue)
          /\ (\A r \in ReferencesOf(GivenValue) : r[3] \notin DOMAIN Environ)
             => StoredValue = GivenValue

\* $A$B: A is set, to the text $HOME, which is put in and not expanded
\* again though HOME is set; B is not set and stays as written.
C19_Witness ==
    /\ pc = "done"
    /\ GivenValue = "$A$B"
    /\ StoredValue = "$HOME$B"

\* The keywords that open a context on a named entry.
ContextKeywords == {"SERVER", "MCP_SERVER", "AGENT", "ROUTER", "CHAIN", "ORCHESTRATOR"}

\* The logical line with parts `parts`, met in context `context`, is one of
\* the instructions handled once: FROM, MODEL outside an agent context,
\* EXPOSE, CMD, FRAMEWORK, SECRET with an inline value, a generic Dockerfile
\* instruction, or a keyword the parser does not know.
OneShot(parts, context) ==
    LET instruction == Upper(parts[1])
    IN  \/ instruction \in {"FROM", "EXPOSE", "CMD", "FRAMEWORK"}
        \/ instruction = "MODEL" /\ context # "agent"
        \/ instruction = "SECRET" /\ Len(parts) >= 3
        \/ instruction \in GenericInstructions
        \/ instruction = "ENV" /\ context # "server"
        \/ instruction \notin ContextKeywords \cup SubInstructions
                                  \cup {"MODEL", "SECRET", "ENV"}

\* The line before line idx was handled once.
AfterOneShot ==
    /\ idx > 1
    /\ OneShot(SplitRespectingQuotes(processed_lines[idx - 1].line),
               AfterLines(idx - 2).current_context)

\* The servers, agents, routers, chains and orchestrators of a Configuration.
Entries(cfg) ==
    <<cfg.servers, cfg.agents, cfg.routers, cfg.chains, cfg.orchestrators>>

\* C20: when FROM, MODEL outside an agent context, EXPOSE, CMD, FRAMEWORK,
\* SECRET with an inline value, a generic Dockerfile instruction or an unknown
\* keyword is handled without an error, current_context is None afterwards;
\* and the line that follows it, unless it declares a server, agent, router,
\* chain or orchestrator itself, changes none of the servers, agents, routers,
\* chains and orchestrators of the Configuration.
C20_OneShotClosesContext ==
    [][/\ (Parsing /\ OneShot(CurParts, current_context) /\ pc' = "parse")
            => current_context' = NoContext
       /\ (Parsing /\ AfterOneShot)
            => /\ current_context = NoContext
               /\ CurInstruction \notin ContextKeywords
                    => Entries(config') = Entries(config)]_vars

\* An agent is open, FROM follows, and the INSTRUCTION after it is refused:
\* the agent keeps the instruction it was created with.
C20_Witness ==
    /\ pc = "error"
    /\ idx = 3
    /\ [i \in 1..3 |-> processed_lines[i].line] = <<"AGENT e", "FROM x", "INSTRUCTION hi">>
    /\ DictGet(config.agents, "e").instruction = Agent("e").instruction
    /\ config.base_image = "x"

\* The model name given on logical line idx.
GivenModel == Some(Unquote(CurParts[2]))

\* C21: `MODEL m` met in an agent context sets only the model of the agent
\* named by current_item: every other field of the Configuration, the default
\* model included, current_context and current_item stay as they were.  Met
\* in any other state it sets the default model of the Configuration to m,
\* changes no server, agent, router, chain, orchestrator or secret, and leaves
\* current_context None.
C21_ModelByContext ==
    [][(Parsing /\ CurInstruction = "MODEL" /\ Len(CurParts) >= 2)
         => IF current_context = "agent"
            THEN /\ pc' = "parse"
                 /\ config' = [config EXCEPT !.agents =
                        DictSet(@, current_item[1],
                                [DictGet(@, current_item[1]) EXCEPT !.model = GivenModel])]
                 /\ current_context' = "agent"
                 /\ current_item' = current_item
            ELSE /\ pc' = "parse"
                 /\ config' = [config EXCEPT !.default_model = GivenModel]
                 /\ current_context' = NoContext]_vars

\* MODEL before any context set the default model; MODEL after AGENT e set
\* the model of e and left the default model and the agent context alone.
C21_Witness ==
    /\ pc = "done"
    /\ [i \in 1..Len(processed_lines) |-> processed_lines[i].line]
         = <<"MODEL d", "AGENT e", "MODEL m">>
    /\ config.default_model = Some("d")
    /\ DictGet(config.agents, "e").model = Some("m")
    /\ current_context = "agent"

\* The first token of logical line idx is wrapped in a matching pair of quotes.
QuotedKeyword == Unquote(CurParts[1]) # CurParts[1]

\* Logical line idx with the quotes around its first token taken away.
BareKeywordLine == Join(" ", <<Unquote(CurParts[1])>> \o Rest(CurParts))

\* C22: a logical line whose first token is a keyword in a matching pair of
\* quotes is handled exactly like the same line with the keyword bare: the
\* same Configuration, context and item result, or the same error.
C22_QuotedKeyword ==
    [][(Parsing /\ QuotedKeyword)
         => LET q == _parse_line(Parser(config, current_context, current_item),
                                 BareKeywordLine)
            IN  /\ config' = q.config
                /\ current_context' = q.current_context
                /\ current_item' = q.current_item
                /\ (pc' = "error") = Raised(q)
                /\ Raised(q) => error'.msg = q.error]_vars

\* C23: `CONTINUE_WITH_FINAL v` met in a chain context sets the
\* continue_with_final flag of the chain named by current_item (true for
\* true, 1 and yes, false otherwise), changes nothing else of the
\* Configuration, dockerfile_instructions included, and keeps the chain
\* context open; met with no context open it raises.
C23_ContinueWithFinal ==
    [][(Parsing /\ CurInstruction = "CONTINUE_WITH_FINAL" /\ Len(CurParts) >= 2)
         => /\ current_context = "chain"
                => /\ pc' = "parse"
                   /\ config' = [config EXCEPT !.chains =
                          DictSet(@, current_item[1],
                                  [DictGet(@, current_item[1])
                                      EXCEPT !.continue_with_final = BoolArg(CurParts)])]
                   /\ current_context' = "chain"
                   /\ current_item' = current_item
            /\ current_context = NoContext
                => /\ pc' = "error"
                   /\ config' = config]_vars

\* Logical line idx is `ENV KEY VALUE` or `ENV KEY=VALUE`.
EnvKeyValue == Len(CurParts) >= 3
EnvAssignment == Len(CurParts) = 2 /\ Find(CurParts[2], "=", 1) > 0

\* The key and the value such a line gives, before expansion.
GivenEnvKey ==
    IF EnvKeyValue THEN Unquote(CurParts[2])
    ELSE Unquote(SubSeq(CurParts[2], 1, Find(CurParts[2], "=", 1) - 1))

GivenEnvValue ==
    IF EnvKeyValue THEN Unquote(Join(" ", SubSeq(CurParts, 3, Len(CurParts))))
    ELSE Unquote(SubSeq(CurParts[2], Find(CurParts[2], "=", 1) + 1, Len(CurParts[2])))

\* C24: `ENV KEY VALUE` or `ENV KEY=VALUE` met in a server context puts KEY
\* with the environment-expanded value in the env map of the server named by
\* current_item, changes nothing else of the Configuration,
\* dockerfile_instructions included, and leaves the server context open.  Met
\* in any other state it appends one ENV DockerfileInstruction whose args are
\* the tokens as written, changes nothing else of the Configuration and
\* leaves current_context None.
C24_EnvByContext ==
    [][(Parsing /\ CurInstruction = "ENV" /\ (EnvKeyValue \/ EnvAssignment))
         => IF current_context = "server"
            THEN /\ pc' = "parse"
                 /\ config' = [config EXCEPT !.servers =
                        DictSet(@, current_item[1],
                                [DictGet(@, current_item[1]) EXCEPT !.env =
                                    DictSet(@, GivenEnvKey, expand_env_vars(GivenEnvValue))])]
                 /\ current_context' = "server"
                 /\ current_item' = current_item
            ELSE /\ pc' = "parse"
                 /\ config' = [config EXCEPT !.dockerfile_instructions =
                        Append(@, DockerfileInstruction("ENV", Rest(CurParts)))]
                 /\ current_context' = NoContext]_vars

\* ENV before SERVER e was recorded as written; ENV after it went to the env
\* map of e, expanded.
C24_Witness ==
    /\ pc = "done"
    /\ [i \in 1..Len(processed_lines) |-> processed_lines[i].line]
         = <<"ENV K $HOME", "SERVER e", "ENV K=$HOME">>
    /\ config.dockerfile_instructions = <<DockerfileInstruction("ENV", <<"K", "$HOME">>)>>
    /\ DictGet(config.servers, "e").env = <<Entry("K", "/root")>>
    /\ current_context = "server"

\* The preprocessing loop takes one more physical line in this step.
ReadsLine == pc = "read" /\ Len(lines') = Len(lines) + 1

\* That line, without its trailing whitespace.
LineRead == RStrip(lines'[Len(lines')])

\* It is blank, or its first non-blank character is #.
BlankOrComment == LineRead = "" \/ StartsWith(LStrip(LineRead), "#")

\* The step emitted nothing and left the pending text as it was.
Skipped ==
    /\ processed_lines' = processed_lines
    /\ current_line' = current_line
    /\ continued_start_line_num' = continued_start_line_num

\* C25 as stated: a blank or comment line never adds text to a logical line
\* and never ends one, inside a continuation as well as outside.
C25_AsStated == [][(ReadsLine /\ BlankOrComment) => Skipped]_vars

\* C25: a blank or comment line met while nothing is pending is skipped; met
\* while a continuation is pending it is handled like any other physical
\* line: with a trailing backslash its text joins the pending text, without
\* one its text joins the pending text and ends the logical line, which is
\* emitted unless it is blank.
C25_BlankAndComment ==
    [][(ReadsLine /\ BlankOrComment)
         => IF current_line = "" THEN Skipped
            ELSE IF EndsWith(LineRead, "\\")
            THEN /\ processed_lines' = processed_lines
                 /\ current_line' =
                        current_line \o RStrip(SubSeq(LineRead, 1, Len(LineRead) - 1)) \o " "
            ELSE /\ current_line' = ""
                 /\ IF Strip(current_line \o LineRead) = ""
                    THEN processed_lines' = processed_lines
                    ELSE /\ Len(processed_lines') = Len(processed_lines) + 1
                         /\ SubSeq(processed_lines', 1, Len(processed_lines)) = processed_lines
                         /\ processed_lines'[Len(processed_lines')].line
                                = Strip(current_line \o LineRead)]_vars

\* A comment line after `RUN a \` became part of the RUN line and ended it.
C25_Witness ==
    /\ pc = "done"
    /\ lines = <<"RUN a \\", "# c", "FROM x">>
    /\ [i \in 1..Len(processed_lines) |-> processed_lines[i].line]
         = <<"RUN a # c", "FROM x">>
    /\ config.dockerfile_instructions[1] = DockerfileInstruction("RUN", <<"a", "#", "c">>)

\* C26: when the Configuration the YAML parser returned has been turned into
\* a document by config_to_yaml_dict and that document has been parsed by the
\* YAML parser, the second parse raised nothing and its Configuration equals
\* the first one, each agent's output_format and every dockerfile
\* instruction included.
C26_YamlInverse ==
    (pc = "reparsed" /\ YamlCall)
        => /\ ~Raised(reparsed)
           /\ reparsed.config = config

\* current_item names an entry of the kind current_context says: a key of the
\* matching mapping, or a SecretContext of the secrets list.
ItemOfContext ==
    /\ current_item # None
    /\ current_context = "server" => DictHas(config.servers, current_item[1])
    /\ current_context = "agent" => DictHas(config.agents, current_item[1])
    /\ current_context = "router" => DictHas(config.routers, current_item[1])
    /\ current_context = "chain" => DictHas(config.chains, current_item[1])
    /\ current_context = "orchestrator" => DictHas(config.orchestrators, current_item[1])
    /\ current_context = "secret" => HasSecretContext(config.secrets, current_item[1])

\* What a sub-instruction handler raises when it does not find its entry.
EntryNotFound ==
    {"KeyError", "SECRET sub-instruction without active secret context",
     "Secret context not found"}

\* C27: whenever current_context is not None, current_item names an entry of
\* that kind that exists in the Configuration, and no line handled in an open
\* context fails because the handler did not find its entry.
C27_ContextNamesEntry ==
    current_context # NoContext
        => /\ ItemOfContext
           /\ pc = "error" => error.msg \notin EntryNotFound

\* Logical line i opens an entry: a server, agent, router, chain or
\* orchestrator declaration, or a bare `SECRET name`.
Opens(i) ==
    LET parts == SplitRespectingQuotes(processed_lines[i].line)
    IN  \/ Upper(parts[1]) \in ContextKeywords /\ Len(parts) >= 2
        \/ Upper(parts[1]) = "SECRET" /\ Len(parts) = 2

\* The lines before line idx that open an entry.
Openers == {i \in 1..(idx - 1) : Opens(i)}

\* The most recent of them is a bare `SECRET name`.
LastOpenedSecret ==
    /\ Openers # {}
    /\ LET last == CHOOSE i \in Openers : \A j \in Openers : j <= i
       IN  Upper(SplitRespectingQuotes(processed_lines[last].line)[1]) = "SECRET"

\* C28: a sub-instruction met with no context open, when the entry opened
\* most recently was not a bare `SECRET name`, raises and changes no secret,
\* whether or not a SecretContext of the same name exists.
C28_RecoveryOnlyAfterSecret ==
    [][(Parsing /\ CurInstruction \in SubInstructions /\ current_context = NoContext
           /\ ~LastOpenedSecret)
         => /\ pc' = "error"
            /\ config'.secrets = config.secrets]_vars

\* The entries of mapping d that have a model.
WithModel(d) == {i \in 1..Len(d) : d[i].val.model # None}

\* C29: when a Configuration in which a router or an orchestrator has a model
\* has been serialized with config_to_dockerfile_content and parsed by the
\* Dockerfile parser, the parse raised nothing, the default model is the one
\* the Configuration had, and each such router and orchestrator came back as
\* it was: its model, and the instruction, plan type, plan iterations, human
\* input and default flag written after its MODEL line.
C29_EntityModelRestored ==
    (pc = "reparsed" /\ YamlCall
        /\ WithModel(config.routers) \cup WithModel(config.orchestrators) # {})
        => /\ ~Raised(reparsed)
           /\ reparsed.config.default_model = config.default_model
           /\ \A i \in WithModel(config.routers) :
                  /\ DictHas(reparsed.config.routers, config.routers[i].key)
                  /\ DictGet(reparsed.config.routers, config.routers[i].key)
                         = config.routers[i].val
           /\ \A i \in WithModel(config.orchestrators) :
                  /\ DictHas(reparsed.config.orchestrators, config.orchestrators[i].key)
                  /\ DictGet(reparsed.config.orchestrators, config.orchestrators[i].key)
                         = config.orchestrators[i].val

\* The sub-instruction keywords for which an entry of each kind has a field.
FieldKeywords ==
    [k \in {"server", "agent", "router", "chain", "orchestrator"} |->
        IF k = "server" THEN {"COMMAND", "ARGS", "TRANSPORT", "URL"}
        ELSE IF k = "agent"
        THEN {"INSTRUCTION", "SERVERS", "USE_HISTORY", "HUMAN_INPUT", "DEFAULT",
              "OUTPUT_FORMAT"}
        ELSE IF k = "router" THEN {"AGENTS", "INSTRUCTION", "DEFAULT"}
        ELSE IF k = "chain" THEN {"SEQUENCE", "INSTRUCTION", "CUMULATIVE", "DEFAULT"}
        ELSE {"AGENTS", "INSTRUCTION", "PLAN_TYPE", "PLAN_ITERATIONS", "HUMAN_INPUT",
              "DEFAULT"}]

\* C30: in an open server, agent, router, chain or orchestrator context a
\* recognized sub-instruction for which the kind has no field is accepted
\* without an error and changes neither the Configuration nor current_context
\* nor current_item; and every sub-instruction that is applied in such a
\* context leaves current_context and current_item as they were.
C30_SubInstructionFrame ==
    [][(Parsing /\ CurInstruction \in SubInstructions
           /\ current_context \in DOMAIN FieldKeywords)
         => /\ CurInstruction \notin FieldKeywords[current_context]
                => /\ pc' = "parse"
                   /\ config' = config
            /\ pc' = "parse"
                => /\ current_context' = current_context
                   /\ current_item' = current_item]_vars

\* COMMAND after AGENT e was accepted and changed nothing; the INSTRUCTION
\* after it still reached agent e.
C30_Witness ==
    /\ pc = "done"
    /\ [i \in 1..Len(processed_lines) |-> processed_lines[i].line]
         = <<"AGENT e", "COMMAND c", "INSTRUCTION hi">>
    /\ config.agents = <<Entry("e", [Agent("e") EXCEPT !.instruction = "hi"])>>
    /\ config.servers = <<>>
    /\ current_context = "agent"

====
